---- MODULE Spec2Model ----
(***************************************************************************)
(* Model of the rama connection driver                                     *)
(* (rama-http-backend/src/server/hyper_conn.rs): the three sealed          *)
(* hyper_serve_connection implementations (Http1Builder, Http2Builder,     *)
(* AutoBuilder) racing the connection future against the cancellation      *)
(* guard, and the error classification applied to the connection's raw     *)
(* result (map_hyper_result, map_hyper_err_to_result,                      *)
(* map_boxed_hyper_result); of the Retry engine with the policies and      *)
(* services of src/service/layer/retry/tests.rs; of Context and Extensions *)
(* as used by the policies' clone_input; and of the credential validators  *)
(* of rama-core/src/net/user/auth.rs.                                      *)
(***************************************************************************)
EXTENDS Naturals, FiniteSets, Sequences, TLC

VARIABLES
    builder,        \* which impl of Sealed serves: "http1", "http2", "auto"
    hasGuard,       \* ctx.guard() is Some
    cancelled,      \* the Guard's shutdown signal has fired
    conn,           \* the pinned connection future: [state, result]
    shutdownCalls,  \* number of conn.graceful_shutdown() invocations
    pc,             \* Driver position
    ret,            \* HttpServeResult returned by the Driver
    nClassified,    \* number of times a raw result was classified
    path,           \* which return path the run took
    firedServing    \* the Guard fired while the Driver was still Serving

driverVars == <<builder, hasGuard, cancelled, conn, shutdownCalls, pc, ret,
                nClassified, path, firedServing>>

VARIABLES
    waiters         \* other tasks holding the same Guard: idle, waiting, released

guardVars == <<waiters>>

VARIABLES
    policy,         \* the Policy the Retry layer was built with
    svc,            \* the inner Service: [kind, n]
    attempts,       \* the Policy's Arc<Mutex<usize>> counter (Limit, MutatingPolicy)
    attempts0,      \* the value that counter was created with
    origReq,        \* the request the caller passed
    rpc,            \* position of the Retry engine
    curCtx,         \* Context about to be passed to the inner Service
    curReq,         \* request about to be passed to the inner Service
    cloned,         \* what clone_input returned for the current attempt
    resp,           \* result of the inner call just made
    final,          \* result the Retry service returned
    nCalls,         \* number of inner Service calls
    reqSeen,        \* requests observed by the inner Service, in order
    nRetry,         \* number of Policy::retry consultations
    retryReqs,      \* requests carried by the Retry decisions, in order
    abortVal,       \* result carried by the Abort decision
    panicked        \* an unreachable!() was reached

retryVars == <<policy, svc, attempts, attempts0, origReq, rpc, curCtx, curReq, cloned,
               resp, final, nCalls, reqSeen, nRetry, retryReqs, abortVal,
               panicked>>

VARIABLES
    ctxs,           \* live Contexts: sequence of [ext, state, guard] handles
    bags,           \* extension bags on the heap: sequence of sets of <<type, value>>
    written,        \* per Context, per type: the value most recently written
    lastOp          \* the last Context operation: [op, ctx, ty, ret, prior]

ctxVars == <<ctxs, bags, written, lastOp>>

VARIABLES
    auths,          \* the collection of validators (Vec<Basic> / [Basic; N])
    cred,           \* the presented credential
    apc,            \* position of the authorization call
    authRes         \* its outcome: [ok, ext, consulted]

authVars == <<auths, cred, apc, authRes>>

VARIABLES
    cells,          \* the AtomicUsize counters on the heap
    trk,            \* the BytesRWTracker: [read, written] counters and its owner
    handles,        \* the BytesRWTrackerHandles obtained: [read, written, read0, written0]
    delivered,      \* bytes the inner stream delivered in successful reads
    accepted,       \* bytes the inner stream accepted in successful writes
    lastIo          \* the last poll through the tracker: [op, tag, n]

trackerVars == <<cells, trk, handles, delivered, accepted, lastIo>>

VARIABLES
    rcBag,          \* Extensions of the Context given to get_request_context
    rcReq,          \* the request given to get_request_context
    rcRet,          \* what the last get_request_context returned
    rcDerived       \* number of times a RequestContext was derived

reqVars == <<rcBag, rcReq, rcRet, rcDerived>>

VARIABLES
    budget,         \* the Arc<Mutex<usize>> of the one Limit shared by the loops
    budget0,        \* the value it was created with
    loops,          \* the retry loops: position and number of inner calls of each
    granted         \* number of Retry decisions the shared Limit has made

sharedVars == <<budget, budget0, loops, granted>>

vars == <<driverVars, guardVars, retryVars, ctxVars, authVars, trackerVars,
          reqVars, sharedVars>>

notDriver == <<guardVars, retryVars, ctxVars, authVars, trackerVars, reqVars,
               sharedVars>>
notGuard == <<retryVars, ctxVars, authVars, trackerVars, reqVars, sharedVars>>
notRetry == <<driverVars, guardVars, ctxVars, authVars, trackerVars, reqVars,
              sharedVars>>
notCtx == <<driverVars, guardVars, retryVars, authVars, trackerVars, reqVars,
            sharedVars>>
notAuth == <<driverVars, guardVars, retryVars, ctxVars, trackerVars, reqVars,
             sharedVars>>
notTracker == <<driverVars, guardVars, retryVars, ctxVars, authVars, reqVars,
                sharedVars>>
notReq == <<driverVars, guardVars, retryVars, ctxVars, authVars, trackerVars,
            sharedVars>>
notShared == <<driverVars, guardVars, retryVars, ctxVars, authVars,
               trackerVars, reqVars>>

\* the parts of the system a specification leaves out stay in these states
DriverIdle ==
    /\ builder = "http1"
    /\ hasGuard = FALSE
    /\ cancelled = FALSE
    /\ conn = "none"
    /\ shutdownCalls = 0
    /\ pc = "idle"
    /\ ret = "none"
    /\ nClassified = 0
    /\ path = "none"
    /\ firedServing = FALSE

GuardIdle == waiters = <<>>

RetryIdle ==
    /\ policy = "none"
    /\ svc = "none"
    /\ attempts = 0
    /\ attempts0 = 0
    /\ origReq = "none"
    /\ rpc = "idle"
    /\ curCtx = {}
    /\ curReq = "none"
    /\ cloned = "none"
    /\ resp = "none"
    /\ final = "none"
    /\ nCalls = 0
    /\ reqSeen = <<>>
    /\ nRetry = 0
    /\ retryReqs = <<>>
    /\ abortVal = "none"
    /\ panicked = FALSE

CtxIdle ==
    /\ ctxs = <<>>
    /\ bags = <<>>
    /\ written = <<>>
    /\ lastOp = "none"

AuthIdle ==
    /\ auths = <<>>
    /\ cred = "none"
    /\ apc = "idle"
    /\ authRes = "none"

TrackerIdle ==
    /\ cells = <<>>
    /\ trk = "none"
    /\ handles = <<>>
    /\ delivered = 0
    /\ accepted = 0
    /\ lastIo = "none"

ReqIdle ==
    /\ rcBag = {}
    /\ rcReq = "none"
    /\ rcRet = "none"
    /\ rcDerived = 0

SharedIdle ==
    /\ budget = 0
    /\ budget0 = 0
    /\ loops = <<>>
    /\ granted = 0

-----------------------------------------------------------------------------
(* Error values.                                                           *)

Builders == {"http1", "http2", "auto"}

\* std::io::ErrorKind values the transport may report
IoKinds == {"ConnectionReset", "BrokenPipe", "PermissionDenied", "InvalidData"}

\* hyper::Error: is_canceled(), is_closed(), or any other kind
HyperKinds == {"Canceled", "ChannelClosed", "Other"}

NoneSrc == [ty |-> "none", h2 |-> "-", io |-> "-"]
OtherSrc == [ty |-> "other", h2 |-> "-", io |-> "-"]
IoSrc(k) == [ty |-> "io", h2 |-> "-", io |-> k]
H2Src(k, io) == [ty |-> "h2", h2 |-> k, io |-> io]

\* what hyper::Error::source() can return; an h2::Error is is_go_away(),
\* is_io() (wrapping an io::Error), or another (a stream reset)
Sources ==
    {NoneSrc, OtherSrc}
        \cup {IoSrc(k) : k \in IoKinds}
        \cup {H2Src("GoAway", "-"), H2Src("Reset", "-")}
        \cup {H2Src("Io", k) : k \in IoKinds}

NoErr == [ty |-> "none", kind |-> "-", source |-> NoneSrc]
HyperErr(k, s) == [ty |-> "hyper", kind |-> k, source |-> s]
IoErr(k) == [ty |-> "io", kind |-> k, source |-> NoneSrc]
OtherErr == [ty |-> "other", kind |-> "-", source |-> NoneSrc]

HyperErrors == {HyperErr(k, s) : k \in HyperKinds, s \in Sources}
IoErrors == {IoErr(k) : k \in IoKinds}

\* Result<(), E>
Ok == [tag |-> "Ok", err |-> NoErr]
Err(e) == [tag |-> "Err", err |-> e]

\* hyper::Result<()> of Http1Builder / Http2Builder connections
HyperResults == {Ok} \cup {Err(e) : e \in HyperErrors}

\* Result<(), Box<dyn Error + Send + Sync>> of AutoBuilder connections
BoxedResults == HyperResults \cup {Err(e) : e \in IoErrors} \cup {Err(OtherErr)}

RawResults(b) == IF b = "auto" THEN BoxedResults ELSE HyperResults

-----------------------------------------------------------------------------
(* Classification.                                                         *)

\* rama_tcp::utils::is_connection_error: the transport classification of
\* ordinary disconnects
is_connection_error(k) == k \in {"ConnectionReset", "BrokenPipe"}

\* faulty variant: every I/O source error is taken for an ordinary disconnect
map_hyper_err_to_result_AnyIoBenign(err) ==
    IF err.kind = "Canceled" \/ err.kind = "ChannelClosed"
    THEN Ok
    ELSE IF err.source.ty = "h2"
              /\ (err.source.h2 = "GoAway" \/ err.source.h2 = "Io")
         THEN Ok
         ELSE IF err.source.ty = "io"
              THEN Ok
              ELSE Err(err)

\* faulty variant: the source is inspected before is_canceled / is_closed
map_hyper_err_to_result_SourceFirst(err) ==
    IF err.source.ty = "h2"
         /\ (err.source.h2 = "GoAway" \/ err.source.h2 = "Io")
    THEN Ok
    ELSE IF err.source.ty = "io"
         THEN IF is_connection_error(err.source.io) THEN Ok ELSE Err(err)
         ELSE IF err.kind = "Canceled" \/ err.kind = "ChannelClosed"
              THEN Ok
              ELSE Err(err)

map_hyper_err_to_result(err) ==
    IF err.kind = "Canceled" \/ err.kind = "ChannelClosed"
    THEN Ok
    ELSE IF err.source.ty = "h2"
              /\ (err.source.h2 = "GoAway" \/ err.source.h2 = "Io")
         THEN Ok
         ELSE IF err.source.ty = "io" /\ is_connection_error(err.source.io)
              THEN Ok
              ELSE Err(err)

map_hyper_result(result) ==
    IF result.tag = "Ok" THEN Ok ELSE map_hyper_err_to_result(result.err)

\* faulty variant: a boxed I/O error is never taken for a disconnect
map_boxed_hyper_result_IoAlwaysFatal(result) ==
    IF result.tag = "Ok"
    THEN Ok
    ELSE IF result.err.ty = "hyper"
         THEN map_hyper_err_to_result(result.err)
         ELSE Err(result.err)

map_boxed_hyper_result(result) ==
    IF result.tag = "Ok"
    THEN Ok
    ELSE IF result.err.ty = "hyper"
         THEN map_hyper_err_to_result(result.err)
         ELSE IF result.err.ty = "io"
              THEN IF is_connection_error(result.err.kind)
                   THEN Ok
                   ELSE Err(result.err)
              ELSE Err(result.err)

\* the classification each impl applies to its connection's raw result
Classify(b, result) ==
    IF b = "auto" THEN map_boxed_hyper_result(result) ELSE map_hyper_result(result)

-----------------------------------------------------------------------------
(* The Driver.                                                             *)

NoRet == [tag |-> "None", err |-> NoErr]
Pending == [state |-> "pending", result |-> NoRet]

Init ==
    /\ builder \in Builders
    /\ hasGuard \in BOOLEAN
    /\ cancelled = FALSE
    /\ conn = Pending
    /\ shutdownCalls = 0
    /\ pc = "Serving"
    /\ ret = NoRet
    /\ nClassified = 0
    /\ path = "none"
    /\ firedServing = FALSE
    /\ GuardIdle
    /\ RetryIdle
    /\ CtxIdle
    /\ AuthIdle
    /\ TrackerIdle
    /\ ReqIdle
    /\ SharedIdle

\* The shutdown signal is sent to the Guard held by the Context.
GuardCancel ==
    /\ hasGuard
    /\ ~cancelled
    /\ cancelled' = TRUE
    /\ firedServing' = (pc = "Serving")
    /\ UNCHANGED <<builder, hasGuard, conn, shutdownCalls, pc, ret,
                   nClassified, path>>
    /\ UNCHANGED notDriver

\* The connection reaches its terminal condition: the next poll of the
\* connection future yields Ready(r).
ConnTerminate ==
    /\ pc # "Done"
    /\ conn.state = "pending"
    /\ \E r \in RawResults(builder) :
           conn' = [state |-> "ready", result |-> r]
    /\ UNCHANGED <<builder, hasGuard, cancelled, shutdownCalls, pc, ret,
                   nClassified, path, firedServing>>
    /\ UNCHANGED notDriver

\* conn.as_mut().graceful_shutdown()
graceful_shutdown == shutdownCalls' = shutdownCalls + 1

\* faulty variant: the Driver returns at the moment cancellation is observed
SelectCancelled_ReturnsAtOnce ==
    /\ pc = "Serving"
    /\ hasGuard
    /\ cancelled
    /\ graceful_shutdown
    /\ ret' = Ok
    /\ nClassified' = nClassified + 1
    /\ pc' = "Done"
    /\ path' = "cancel_first"
    /\ UNCHANGED <<builder, hasGuard, cancelled, conn, firedServing>>
    /\ UNCHANGED notDriver

\* faulty variant: observing the signal takes it off the Guard
SelectCancelled_ConsumesSignal ==
    /\ pc = "Serving"
    /\ hasGuard
    /\ cancelled
    /\ graceful_shutdown
    /\ pc' = "GracefulShutdownRequested"
    /\ cancelled' = FALSE
    /\ UNCHANGED <<builder, hasGuard, conn, ret, nClassified,
                   path, firedServing>>
    /\ UNCHANGED notDriver

\* select! branch: cancelled_fut is ready
SelectCancelled ==
    /\ pc = "Serving"
    /\ hasGuard
    /\ cancelled
    /\ graceful_shutdown
    /\ pc' = "GracefulShutdownRequested"
    /\ UNCHANGED <<builder, hasGuard, cancelled, conn, ret, nClassified,
                   path, firedServing>>
    /\ UNCHANGED notDriver

\* faulty variant: the finished connection is shut down before returning
SelectConnFinished_ShutsDown ==
    /\ pc = "Serving"
    /\ hasGuard
    /\ conn.state = "ready"
    /\ conn' = [conn EXCEPT !.state = "completed"]
    /\ graceful_shutdown
    /\ ret' = Classify(builder, conn.result)
    /\ nClassified' = nClassified + 1
    /\ pc' = "Done"
    /\ path' = "conn_first"
    /\ UNCHANGED <<builder, hasGuard, cancelled, firedServing>>
    /\ UNCHANGED notDriver

\* faulty variant: the completion is only looked at once the Guard has fired
SelectConnFinished_AfterCancelOnly ==
    /\ pc = "Serving"
    /\ hasGuard
    /\ cancelled
    /\ conn.state = "ready"
    /\ conn' = [conn EXCEPT !.state = "completed"]
    /\ ret' = Classify(builder, conn.result)
    /\ nClassified' = nClassified + 1
    /\ pc' = "Done"
    /\ path' = "conn_first"
    /\ UNCHANGED <<builder, hasGuard, cancelled, shutdownCalls, firedServing>>
    /\ UNCHANGED notDriver

\* select! branch: conn is ready; return the classified result
SelectConnFinished ==
    /\ pc = "Serving"
    /\ hasGuard
    /\ conn.state = "ready"
    /\ conn' = [conn EXCEPT !.state = "completed"]
    /\ ret' = Classify(builder, conn.result)
    /\ nClassified' = nClassified + 1
    /\ pc' = "Done"
    /\ path' = "conn_first"
    /\ UNCHANGED <<builder, hasGuard, cancelled, shutdownCalls, firedServing>>
    /\ UNCHANGED notDriver

\* faulty variant: graceful shutdown is requested again before the final await
AwaitAfterShutdown_ShutsDownAgain ==
    /\ pc = "GracefulShutdownRequested"
    /\ conn.state = "ready"
    /\ conn' = [conn EXCEPT !.state = "completed"]
    /\ graceful_shutdown
    /\ ret' = Classify(builder, conn.result)
    /\ nClassified' = nClassified + 1
    /\ pc' = "Done"
    /\ path' = "cancel_first"
    /\ UNCHANGED <<builder, hasGuard, cancelled, firedServing>>
    /\ UNCHANGED notDriver

\* faulty variant: a result that follows a graceful shutdown is reported as success
AwaitAfterShutdown_AlwaysOk ==
    /\ pc = "GracefulShutdownRequested"
    /\ conn.state = "ready"
    /\ conn' = [conn EXCEPT !.state = "completed"]
    /\ ret' = Ok
    /\ nClassified' = nClassified + 1
    /\ pc' = "Done"
    /\ path' = "cancel_first"
    /\ UNCHANGED <<builder, hasGuard, cancelled, shutdownCalls, firedServing>>
    /\ UNCHANGED notDriver

\* faulty variant: after the shutdown request the Driver re-enters the race
AwaitAfterShutdown_Reraces ==
    /\ pc = "GracefulShutdownRequested"
    /\ conn.state = "ready"
    /\ pc' = "Serving"
    /\ UNCHANGED <<builder, hasGuard, cancelled, conn, shutdownCalls, ret,
                   nClassified, path, firedServing>>
    /\ UNCHANGED notDriver

\* faulty variant: a grace period ends the wait before the connection completes
AwaitAfterShutdown_GracePeriod ==
    /\ pc = "GracefulShutdownRequested"
    /\ ret' = IF conn.state = "ready" THEN Classify(builder, conn.result) ELSE Ok
    /\ conn' = IF conn.state = "ready"
               THEN [conn EXCEPT !.state = "completed"]
               ELSE conn
    /\ nClassified' = nClassified + 1
    /\ pc' = "Done"
    /\ path' = "cancel_first"
    /\ UNCHANGED <<builder, hasGuard, cancelled, shutdownCalls, firedServing>>
    /\ UNCHANGED notDriver

\* conn.as_mut().await after the graceful shutdown was requested
AwaitAfterShutdown ==
    /\ pc = "GracefulShutdownRequested"
    /\ conn.state = "ready"
    /\ conn' = [conn EXCEPT !.state = "completed"]
    /\ ret' = Classify(builder, conn.result)
    /\ nClassified' = nClassified + 1
    /\ pc' = "Done"
    /\ path' = "cancel_first"
    /\ UNCHANGED <<builder, hasGuard, cancelled, shutdownCalls, firedServing>>
    /\ UNCHANGED notDriver

\* faulty variant: without a Guard the raw result is returned unclassified
AwaitNoGuard_Unclassified ==
    /\ pc = "Serving"
    /\ ~hasGuard
    /\ conn.state = "ready"
    /\ conn' = [conn EXCEPT !.state = "completed"]
    /\ ret' = conn.result
    /\ nClassified' = nClassified + 1
    /\ pc' = "Done"
    /\ path' = "no_guard"
    /\ UNCHANGED <<builder, hasGuard, cancelled, shutdownCalls, firedServing>>
    /\ UNCHANGED notDriver

\* no Guard in the Context: conn.await
AwaitNoGuard ==
    /\ pc = "Serving"
    /\ ~hasGuard
    /\ conn.state = "ready"
    /\ conn' = [conn EXCEPT !.state = "completed"]
    /\ ret' = Classify(builder, conn.result)
    /\ nClassified' = nClassified + 1
    /\ pc' = "Done"
    /\ path' = "no_guard"
    /\ UNCHANGED <<builder, hasGuard, cancelled, shutdownCalls, firedServing>>
    /\ UNCHANGED notDriver

Next ==
    \/ GuardCancel
    \/ ConnTerminate
    \/ SelectCancelled
    \/ SelectConnFinished
    \/ AwaitAfterShutdown
    \/ AwaitNoGuard

Spec == Init /\ [][Next]_vars

-----------------------------------------------------------------------------
(* Properties of the Driver.                                               *)

\* C1: when the Driver leaves Serving without having obtained the
\* connection's completion (cancellation was observed first), that step
\* invokes graceful shutdown and returns nothing; from
\* GracefulShutdownRequested the only exit is the completion of that same
\* connection future, classified in that step.
C1_ShutdownThenAwait ==
    [][ /\ (pc = "Serving" /\ pc' # "Serving" /\ conn'.state # "completed")
            => /\ hasGuard /\ cancelled
               /\ pc' = "GracefulShutdownRequested"
               /\ shutdownCalls' = shutdownCalls + 1
               /\ conn' = conn
               /\ ret' = NoRet
        /\ (pc = "GracefulShutdownRequested" /\ pc' # pc)
            => /\ pc' = "Done"
               /\ conn.state = "ready"
               /\ conn' = [conn EXCEPT !.state = "completed"]
               /\ ret' = Classify(builder, conn.result)
      ]_vars

C1_Witness ==
    /\ pc = "Done"
    /\ path = "cancel_first"
    /\ shutdownCalls = 1
    /\ conn.state = "completed"
    /\ ret = Classify(builder, conn.result)

\* C2 as stated: a finished run has invoked graceful shutdown exactly once
\* if the Guard fired while the Driver was still serving the connection,
\* and zero times otherwise; never twice.
C2_OncePerGuardFiring ==
    /\ shutdownCalls <= 1
    /\ pc = "Done" => shutdownCalls = (IF firedServing THEN 1 ELSE 0)

\* C2 amended: graceful shutdown has been invoked exactly once when the
\* race yielded the cancellation (the Driver took the cancellation branch),
\* and zero times otherwise, also when the Guard fired during service but
\* the race yielded the connection's completion; never twice.
C2_OncePerObservedCancel ==
    /\ shutdownCalls <= 1
    /\ shutdownCalls =
          (IF pc = "GracefulShutdownRequested" \/ path = "cancel_first"
           THEN 1 ELSE 0)
    /\ shutdownCalls = 1 => hasGuard /\ cancelled

C2_Witness ==
    /\ pc = "Done"
    /\ firedServing
    /\ path = "conn_first"
    /\ shutdownCalls = 0

\* C3: when the race yields the connection's completion, that same step
\* classifies the result and returns it, with no graceful shutdown invoked;
\* afterwards the Driver reacts to nothing, not even to the Guard firing.
C3_ConnFirstReturns ==
    [][ /\ (pc = "Serving" /\ hasGuard /\ conn'.state = "completed")
            => /\ pc' = "Done"
               /\ ret' = Classify(builder, conn.result)
               /\ shutdownCalls' = 0
        /\ path = "conn_first"
            => /\ pc' = "Done"
               /\ ret' = ret
               /\ shutdownCalls' = 0
               /\ path' = path
      ]_vars

C3_Witness ==
    /\ pc = "Done"
    /\ path = "conn_first"
    /\ cancelled
    /\ ~firedServing
    /\ shutdownCalls = 0

\* C4: whatever path the run took (no Guard, connection first, cancellation
\* first), the value returned is the classification of the connection
\* future's terminal result.
C4_SameClassification ==
    pc = "Done" =>
        /\ path \in {"no_guard", "conn_first", "cancel_first"}
        /\ conn.state = "completed"
        /\ ret = Classify(builder, conn.result)

C4_Witness ==
    /\ pc = "Done"
    /\ path = "cancel_first"
    /\ conn.result.tag = "Err"
    /\ ret.tag = "Err"

\* C5: without a Guard the Driver never enters the race's cancellation
\* branch, never invokes graceful shutdown, and returns the classification
\* of the awaited connection result.
C5_NoGuardNoRace ==
    ~hasGuard =>
        /\ ~cancelled
        /\ shutdownCalls = 0
        /\ pc \in {"Serving", "Done"}
        /\ pc = "Done" =>
              /\ path = "no_guard"
              /\ conn.state = "completed"
              /\ nClassified = 1
              /\ ret = Classify(builder, conn.result)

C5_Witness ==
    /\ ~hasGuard
    /\ builder = "auto"
    /\ pc = "Done"
    /\ conn.result = Err(IoErr("ConnectionReset"))
    /\ ret = Ok

\* the connection ended with an I/O error: the source of a hyper error, or
\* the boxed error itself
IoOf(e) == IF e.ty = "hyper" THEN e.source.io ELSE e.kind
EndsWithIo(e) == (e.ty = "hyper" /\ e.source.ty = "io") \/ e.ty = "io"

\* C6 as stated: a run whose connection ended with an I/O error returns
\* Ok(()) if the transport classification recognises it and a failure
\* carrying the error otherwise, for every hyper error with an I/O source
\* and for a boxed I/O error.
C6_IoClassification ==
    (pc = "Done" /\ conn.result.tag = "Err" /\ EndsWithIo(conn.result.err)) =>
        ret = (IF is_connection_error(IoOf(conn.result.err))
               THEN Ok ELSE conn.result)

\* C6 amended: the same, for a boxed I/O error and for a hyper error with
\* an I/O source that reports itself neither canceled nor closed.
C6_IoClassificationNotCanceled ==
    (/\ pc = "Done"
     /\ conn.result.tag = "Err"
     /\ EndsWithIo(conn.result.err)
     /\ conn.result.err.kind \notin {"Canceled", "ChannelClosed"}) =>
        ret = (IF is_connection_error(IoOf(conn.result.err))
               THEN Ok ELSE conn.result)

C6_Witness ==
    /\ pc = "Done"
    /\ conn.result = Err(HyperErr("Other", IoSrc("PermissionDenied")))
    /\ ret = Err(HyperErr("Other", IoSrc("PermissionDenied")))

\* the benign classes of the Driver's classification step: a canceled or
\* closed connection, a go-away, and an I/O error (transport or
\* protocol-level) that the transport classification recognises
BenignClass(e) ==
    \/ e.ty = "hyper" /\ e.kind \in {"Canceled", "ChannelClosed"}
    \/ e.ty = "hyper" /\ e.source.ty = "h2" /\ e.source.h2 = "GoAway"
    \/ e.ty = "hyper" /\ e.source.ty = "h2" /\ e.source.h2 = "Io"
          /\ is_connection_error(e.source.io)
    \/ e.ty = "hyper" /\ e.source.ty = "io" /\ is_connection_error(e.source.io)
    \/ e.ty = "io" /\ is_connection_error(e.kind)

\* C7: a successful connection result is returned as Ok(()), and an error
\* outside the benign classes is returned as a failure carrying that error.
C7_FatalPropagates ==
    pc = "Done" =>
        /\ conn.result = Ok => ret = Ok
        /\ (conn.result.tag = "Err" /\ ~BenignClass(conn.result.err))
              => ret = conn.result

C7_Witness ==
    /\ pc = "Done"
    /\ conn.result = Err(HyperErr("Other", H2Src("Io", "PermissionDenied")))
    /\ ret = Ok

\* C8: the Driver moves Serving -> Done or
\* Serving -> GracefulShutdownRequested -> Done only; Done is never left
\* and its result never changes; GracefulShutdownRequested is entered only
\* from Serving with the Guard cancelled; exactly one classification is
\* made, on entering Done.
C8_Transitions ==
    [][ /\ pc = "Serving"
            => pc' \in {"Serving", "GracefulShutdownRequested", "Done"}
        /\ pc = "GracefulShutdownRequested"
            => pc' \in {"GracefulShutdownRequested", "Done"}
        /\ pc = "Done" => (pc' = "Done" /\ ret' = ret)
        /\ (pc # "GracefulShutdownRequested"
              /\ pc' = "GracefulShutdownRequested")
            => (pc = "Serving" /\ hasGuard /\ cancelled)
        /\ nClassified' = (IF pc' = "Done" THEN 1 ELSE 0)
        /\ (pc' = "Done") = (ret' # NoRet)
      ]_vars

C8_Witness ==
    /\ pc = "Done"
    /\ path = "cancel_first"
    /\ nClassified = 1
    /\ ret # NoRet

\* C9: the Driver has returned only if the connection future has
\* completed; while the connection future has not completed, cancelled
\* Guard or not, the Driver has returned nothing.
C9_ReturnsOnlyAfterCompletion ==
    /\ pc = "Done" => conn.state = "completed"
    /\ conn.state # "completed" => (pc # "Done" /\ ret = NoRet)

C9_Witness ==
    /\ cancelled
    /\ pc = "GracefulShutdownRequested"
    /\ shutdownCalls = 1
    /\ conn.state = "pending"
    /\ ret = NoRet

\* C10: the auto-detect variant races the connection against the Guard but
\* performs no shutdown operation on its connection, and returns the
\* classification of the connection's natural completion.
C10_AutoShutdownIsNoop ==
    builder = "auto" =>
        /\ shutdownCalls = 0
        /\ pc = "Done" =>
              /\ conn.state = "completed"
              /\ ret = map_boxed_hyper_result(conn.result)

C10_Witness ==
    /\ builder = "auto"
    /\ pc = "Done"
    /\ path = "cancel_first"
    /\ shutdownCalls = 1

-----------------------------------------------------------------------------
(* The Retry engine, with the policies and services of retry/tests.rs.     *)

MaxFail == 3        \* the inner Service errors on at most this many first calls
MaxRetries == 3     \* largest initial value of a Policy's retry counter
MaxCalls == 5       \* inner calls explored in one top-level call

Policies == {"RetryErrors", "Limit", "UnlessErr", "CannotClone", "MutatingPolicy"}

\* Result<Res, Error>; at is the inner call that produced the value
\* (0 for a value made by a Policy)
ROk(k) == [tag |-> "Ok", val |-> "world", at |-> k]
RErr(msg, k) == [tag |-> "Err", val |-> msg, at |-> k]
NoRes == [tag |-> "None", val |-> "-", at |-> 0]

\* the Svc of each test; the AtomicBool of retry_errors and
\* retry_error_inspection (one first error) is a count n of first errors
Svcs ==
    {[kind |-> k, n |-> n] :
        k \in {"retry_errors", "retry_error_inspection"}, n \in 0..MaxFail}
    \cup {[kind |-> k, n |-> 0] :
        k \in {"retry_limit", "retry_cannot_clone_request",
               "success_with_cannot_clone", "retry_mutating_policy"}}

\* the assert_eq!(req, ..) at the head of each Svc::serve, for its k-th call
Svc_asserts(s, k, req) ==
    IF s.kind = "retry_mutating_policy"
    THEN IF k >= 2 THEN req = "retrying" ELSE req = "hello"
    ELSE req = "hello"

\* the result of the k-th call of Svc::serve
Svc_serve(s, k) ==
    CASE s.kind = "retry_errors" ->
            IF k <= s.n THEN RErr("retry me", k) ELSE ROk(k)
      [] s.kind = "retry_limit" -> RErr("error forever", k)
      [] s.kind = "retry_error_inspection" ->
            IF k <= s.n THEN RErr("retry me", k) ELSE RErr("reject", k)
      [] s.kind = "retry_cannot_clone_request" -> RErr("failed", k)
      [] s.kind = "success_with_cannot_clone" -> ROk(k)
      [] s.kind = "retry_mutating_policy" -> ROk(k)

\* PolicyResult, with the value the Policy's counter has afterwards
Retry(ctx, req, att) ==
    [kind |-> "Retry", ctx |-> ctx, req |-> req, result |-> NoRes, att |-> att]
Abort(result, att) ==
    [kind |-> "Abort", ctx |-> {}, req |-> "-", result |-> result, att |-> att]
Unreachable(att) ==
    [kind |-> "Panic", ctx |-> {}, req |-> "-", result |-> NoRes, att |-> att]

\* Option<(Context, Req)>
Some(ctx, req) == [some |-> TRUE, ctx |-> ctx, req |-> req]
None == [some |-> FALSE, ctx |-> {}, req |-> "-"]

\* faulty variant: the condition is inverted
RetryErrors_retry_Inverted(att, ctx, req, result) ==
    IF result.tag = "Ok" THEN Retry(ctx, req, att) ELSE Abort(result, att)

RetryErrors_retry(att, ctx, req, result) ==
    IF result.tag = "Err" THEN Retry(ctx, req, att) ELSE Abort(result, att)

\* faulty variant: the budget is tested but never spent
Limit_retry_NeverSpends(att, ctx, req, result) ==
    IF result.tag = "Err" /\ att > 0
    THEN Retry(ctx, req, att)
    ELSE Abort(result, att)

\* faulty variant: the last permitted retry is refused
Limit_retry_OffByOne(att, ctx, req, result) ==
    IF result.tag = "Err" /\ att > 1
    THEN Retry(ctx, req, att - 1)
    ELSE Abort(result, att)

Limit_retry(att, ctx, req, result) ==
    IF result.tag = "Err" /\ att > 0
    THEN Retry(ctx, req, att - 1)
    ELSE Abort(result, att)

\* UnlessErr("reject")
Sentinel == "reject"

\* faulty variant: the comparison with the sentinel is inverted
UnlessErr_retry_OnlySentinel(att, ctx, req, result) ==
    IF result.tag = "Err" /\ result.val = Sentinel
    THEN Retry(ctx, req, att)
    ELSE Abort(result, att)

UnlessErr_retry(att, ctx, req, result) ==
    IF result.tag = "Err" /\ result.val # Sentinel
    THEN Retry(ctx, req, att)
    ELSE Abort(result, att)

CannotClone_retry(att, ctx, req, result) == Unreachable(att)

\* faulty variant: with no retries left the actual result is passed through
MutatingPolicy_retry_PassesResult(att, ctx, req, result) ==
    IF att = 0
    THEN Abort(result, att)
    ELSE Retry(ctx, "retrying", att - 1)

\* faulty variant: the retried request is the one the Policy was given
MutatingPolicy_retry_KeepsRequest(att, ctx, req, result) ==
    IF att = 0
    THEN Abort(RErr("out of retries", 0), att)
    ELSE Retry(ctx, req, att - 1)

MutatingPolicy_retry(att, ctx, req, result) ==
    IF att = 0
    THEN Abort(RErr("out of retries", 0), att)
    ELSE Retry(ctx, "retrying", att - 1)

\* faulty variant: the clone is of the request of the first attempt
Cloning_clone_input_Stale(ctx, req) == Some(ctx, "hello")

\* Some((ctx.clone(), *req)) of RetryErrors, Limit, UnlessErr, MutatingPolicy
Cloning_clone_input(ctx, req) == Some(ctx, req)

\* faulty variant: the input is cloned after all
CannotClone_clone_input_Clones(ctx, req) == Some(ctx, req)

CannotClone_clone_input(ctx, req) == None

Policy_retry(p, att, ctx, req, result) ==
    CASE p = "RetryErrors" -> RetryErrors_retry(att, ctx, req, result)
      [] p = "Limit" -> Limit_retry(att, ctx, req, result)
      [] p = "UnlessErr" -> UnlessErr_retry(att, ctx, req, result)
      [] p = "CannotClone" -> CannotClone_retry(att, ctx, req, result)
      [] p = "MutatingPolicy" -> MutatingPolicy_retry(att, ctx, req, result)

Policy_clone_input(p, ctx, req) ==
    IF p = "CannotClone"
    THEN CannotClone_clone_input(ctx, req)
    ELSE Cloning_clone_input(ctx, req)

\* svc.serve(Context::default(), "hello") on RetryLayer::new(policy)
RetryInit ==
    /\ policy \in Policies
    /\ svc \in Svcs
    /\ attempts \in (IF policy \in {"Limit", "MutatingPolicy"}
                     THEN 0..MaxRetries ELSE {0})
    /\ attempts0 = attempts
    /\ origReq = "hello"
    /\ rpc = "clone"
    /\ curCtx = {}
    /\ curReq = origReq
    /\ cloned = None
    /\ resp = NoRes
    /\ final = NoRes
    /\ nCalls = 0
    /\ reqSeen = <<>>
    /\ nRetry = 0
    /\ retryReqs = <<>>
    /\ abortVal = NoRes
    /\ panicked = FALSE
    /\ DriverIdle
    /\ GuardIdle
    /\ CtxIdle
    /\ AuthIdle
    /\ TrackerIdle
    /\ ReqIdle
    /\ SharedIdle

\* the engine asks the Policy for a clone of the input of the coming attempt
RetryCloneInput ==
    /\ rpc = "clone"
    /\ cloned' = Policy_clone_input(policy, curCtx, curReq)
    /\ rpc' = "call"
    /\ UNCHANGED <<policy, svc, attempts, attempts0, origReq, curCtx, curReq, resp, final,
                   nCalls, reqSeen, nRetry, retryReqs, abortVal, panicked>>
    /\ UNCHANGED notRetry

\* the engine calls the inner Service with the current Context and request
RetryCallInner ==
    /\ rpc = "call"
    /\ nCalls < MaxCalls
    /\ nCalls' = nCalls + 1
    /\ reqSeen' = Append(reqSeen, curReq)
    /\ IF Svc_asserts(svc, nCalls + 1, curReq)
       THEN /\ resp' = Svc_serve(svc, nCalls + 1)
            /\ rpc' = "decide"
            /\ UNCHANGED panicked
       ELSE /\ panicked' = TRUE
            /\ rpc' = "panicked"
            /\ UNCHANGED resp
    /\ UNCHANGED <<policy, svc, attempts, attempts0, origReq, curCtx, curReq, cloned,
                   final, nRetry, retryReqs, abortVal>>
    /\ UNCHANGED notRetry

\* no clone was obtained for this attempt: its result is final
RetryNoClone ==
    /\ rpc = "decide"
    /\ ~cloned.some
    /\ final' = resp
    /\ rpc' = "done"
    /\ UNCHANGED <<policy, svc, attempts, attempts0, origReq, curCtx, curReq, cloned,
                   resp, nCalls, reqSeen, nRetry, retryReqs, abortVal,
                   panicked>>
    /\ UNCHANGED notRetry

\* the Policy decides on the attempt's result, given the clone
RetryConsultPolicy ==
    /\ rpc = "decide"
    /\ cloned.some
    /\ LET d == Policy_retry(policy, attempts, cloned.ctx, cloned.req, resp)
       IN  /\ nRetry' = nRetry + 1
           /\ attempts' = d.att
           /\ CASE d.kind = "Abort" ->
                      /\ final' = d.result
                      /\ abortVal' = d.result
                      /\ rpc' = "done"
                      /\ UNCHANGED <<curCtx, curReq, retryReqs, panicked>>
                [] d.kind = "Retry" ->
                      /\ curCtx' = d.ctx
                      /\ curReq' = d.req
                      /\ retryReqs' = Append(retryReqs, d.req)
                      /\ rpc' = "clone"
                      /\ UNCHANGED <<final, abortVal, panicked>>
                [] d.kind = "Panic" ->
                      /\ panicked' = TRUE
                      /\ rpc' = "panicked"
                      /\ UNCHANGED <<final, abortVal, curCtx, curReq, retryReqs>>
    /\ UNCHANGED <<policy, svc, attempts0, origReq, cloned, resp, nCalls,
                   reqSeen>>
    /\ UNCHANGED notRetry

RetryNext ==
    \/ RetryCloneInput
    \/ RetryCallInner
    \/ RetryNoClone
    \/ RetryConsultPolicy

SpecRetry == RetryInit /\ [][RetryNext]_vars

\* the engine is polled by its caller until it returns
SpecRetryFair == SpecRetry /\ WF_vars(RetryNext)

\* C11: with RetryErrors and a Service that errors on its first n calls and
\* then succeeds, the call never makes more than n+1 inner calls, it
\* returns, and what it returns is the success of inner call n+1.
C11_RetryUntilSuccess ==
    /\ [](policy = "RetryErrors" /\ svc.kind = "retry_errors"
            => /\ nCalls <= svc.n + 1
               /\ ~panicked
               /\ rpc = "done" => (final = ROk(svc.n + 1) /\ nCalls = svc.n + 1))
    /\ (policy = "RetryErrors" /\ svc.kind = "retry_errors")
            => <>(rpc = "done")

C11_Witness ==
    /\ policy = "RetryErrors"
    /\ svc = [kind |-> "retry_errors", n |-> 2]
    /\ rpc = "done"
    /\ nCalls = 3
    /\ final = ROk(3)

\* C12: with Limit(K) and a permanently failing Service, the call makes at
\* most K+1 inner calls, and when it has returned it has made exactly K+1
\* and returns the error of call K+1.
C12_RetryLimit ==
    (policy = "Limit" /\ svc.kind = "retry_limit") =>
        /\ nCalls <= attempts0 + 1
        /\ ~panicked
        /\ rpc = "done" =>
              /\ nCalls = attempts0 + 1
              /\ nRetry = attempts0 + 1
              /\ final = RErr("error forever", attempts0 + 1)

C12_Witness ==
    /\ policy = "Limit"
    /\ svc.kind = "retry_limit"
    /\ attempts0 = 2
    /\ rpc = "done"
    /\ nCalls = 3
    /\ final = RErr("error forever", 3)

\* C13: with CannotClone the inner Service is called at most once, retry is
\* never consulted (its unreachable!() is not reached), and the call
\* returns the single inner result, success or error, unchanged.
C13_CannotCloneOneAttempt ==
    policy = "CannotClone" =>
        /\ nCalls <= 1
        /\ nRetry = 0
        /\ ~panicked
        /\ rpc = "done" => (nCalls = 1 /\ final = Svc_serve(svc, 1))

C13_Witness ==
    /\ policy = "CannotClone"
    /\ svc.kind = "retry_cannot_clone_request"
    /\ rpc = "done"
    /\ nCalls = 1
    /\ final = RErr("failed", 1)

\* C14: a call that ended on Abort(result) returned exactly that result and
\* makes no inner call afterwards; with MutatingPolicy over the always
\* succeeding Service the returned value is the substituted
\* "out of retries" error although the last inner call succeeded.
C14_AbortResultIsFinal ==
    /\ []((rpc = "done" /\ abortVal # NoRes) => final = abortVal)
    /\ []((/\ policy = "MutatingPolicy"
           /\ svc.kind = "retry_mutating_policy"
           /\ rpc = "done")
            => /\ final = RErr("out of retries", 0)
               /\ resp = ROk(nCalls)
               /\ nCalls = attempts0 + 1)
    /\ [][rpc = "done" => (nCalls' = nCalls /\ final' = final /\ rpc' = "done")]_vars

C14_Witness ==
    /\ policy = "MutatingPolicy"
    /\ svc.kind = "retry_mutating_policy"
    /\ attempts0 = 2
    /\ rpc = "done"
    /\ nCalls = 3
    /\ resp = ROk(3)
    /\ final = RErr("out of retries", 0)

\* C15: the first inner call observes the caller's request and the i-th
\* (i >= 2) observes the request carried by the (i-1)-th Retry decision;
\* with MutatingPolicy that is "retrying", not the caller's request.
C15_RetriedRequestObserved ==
    /\ \A i \in 1..Len(reqSeen) :
          reqSeen[i] = (IF i = 1 THEN origReq ELSE retryReqs[i - 1])
    /\ policy = "MutatingPolicy" =>
          \A i \in 2..Len(reqSeen) :
              reqSeen[i] = "retrying" /\ reqSeen[i] # origReq

C15_Witness ==
    /\ policy = "MutatingPolicy"
    /\ reqSeen = <<"hello", "retrying", "retrying">>

\* C16: with UnlessErr(sentinel) a call that has returned returns the
\* result of its last inner call, which is a success or the sentinel
\* error, and every earlier inner result was an error other than the
\* sentinel.
C16_SelectiveRetry ==
    (policy = "UnlessErr" /\ rpc = "done") =>
        /\ final = Svc_serve(svc, nCalls)
        /\ final.tag = "Ok" \/ final.val = Sentinel
        /\ \A i \in 1..(nCalls - 1) :
              /\ Svc_serve(svc, i).tag = "Err"
              /\ Svc_serve(svc, i).val # Sentinel
        /\ nRetry = nCalls

C16_Witness ==
    /\ policy = "UnlessErr"
    /\ svc = [kind |-> "retry_error_inspection", n |-> 3]
    /\ rpc = "done"
    /\ nCalls = 4
    /\ final = RErr("reject", 4)

-----------------------------------------------------------------------------
(* Context and Extensions.                                                 *)

MaxCtx == 2         \* Contexts alive at once (the first and its clones)

\* type identities of facts, and the values a fact can have
Types == {"UserId", "UsernameLabels"}
ExtVals == {"a", "b"}
Absent == "absent"

\* an Extensions bag is a set of <<type, value>> entries
Extensions_new == {}

Extensions_get(b, t) ==
    IF \E p \in b : p[1] = t
    THEN (CHOOSE p \in b : p[1] = t)[2]
    ELSE Absent

\* faulty variant: the entry already present for the type is kept as well
Extensions_insert_KeepsOld(b, t, v) == b \cup {<<t, v>>}

\* the bag after insert(v); insert returns Extensions_get(b, t)
Extensions_insert(b, t, v) == {p \in b : p[1] # t} \cup {<<t, v>>}

Extensions_extend(b, other) ==
    {p \in b : \A q \in other : q[1] # p[1]} \cup other

\* the bags another holder can merge in
OtherBags ==
    {{<<t, f[t]>> : t \in {u \in Types : f[u] # Absent}} :
        f \in [Types -> ExtVals \cup {Absent}]}

\* the Extensions a Context refers to, and a lookup through the Context
ExtOf(cs, bs, c) == bs[cs[c].ext]
Context_get(cs, bs, c, t) == Extensions_get(ExtOf(cs, bs, c), t)

NoWrites == [t \in Types |-> Absent]

\* faulty variant: the clone refers to the bag of the Context it was cloned from
Context_clone_SharesExt(c) ==
    [ext |-> ctxs[c].ext, state |-> ctxs[c].state, guard |-> ctxs[c].guard]

\* Context::clone: a bag of its own (allocated next on the heap, holding a
\* copy), the same state and the same Guard
Context_clone(c) ==
    [ext |-> Len(bags) + 1, state |-> ctxs[c].state, guard |-> ctxs[c].guard]

\* Context::default(), with or without a Guard
CtxInit ==
    /\ \E g \in {"none", "guard0"} :
          ctxs = <<[ext |-> 1, state |-> "state0", guard |-> g]>>
    /\ bags = <<Extensions_new>>
    /\ written = <<NoWrites>>
    /\ lastOp = [op |-> "new", ctx |-> 1, ty |-> "-", ret |-> Absent,
                 prior |-> Absent]
    /\ DriverIdle
    /\ GuardIdle
    /\ RetryIdle
    /\ AuthIdle
    /\ TrackerIdle
    /\ ReqIdle
    /\ SharedIdle

\* clone_input: Some((ctx.clone(), *req)) by a holder of Context c
CtxClone(c) ==
    /\ Len(ctxs) < MaxCtx
    /\ ctxs' = Append(ctxs, Context_clone(c))
    /\ bags' = Append(bags, ExtOf(ctxs, bags, c))
    /\ written' = Append(written, written[c])
    /\ lastOp' = [op |-> "clone", ctx |-> Len(ctxs) + 1, ty |-> "-",
                  ret |-> Absent, prior |-> Absent]
    /\ UNCHANGED notCtx

\* ctx.insert(v) of a value of type t by a holder of Context c
CtxInsert(c, t, v) ==
    /\ bags' = [bags EXCEPT ![ctxs[c].ext] = Extensions_insert(@, t, v)]
    /\ written' = [written EXCEPT ![c][t] = v]
    /\ lastOp' = [op |-> "insert", ctx |-> c, ty |-> t,
                  ret |-> Context_get(ctxs, bags, c, t),
                  prior |-> written[c][t]]
    /\ UNCHANGED ctxs
    /\ UNCHANGED notCtx

\* ctx.extend(other) by a holder of Context c
CtxExtend(c, other) ==
    /\ bags' = [bags EXCEPT ![ctxs[c].ext] = Extensions_extend(@, other)]
    /\ written' = [written EXCEPT ![c] =
                      [t \in Types |->
                          IF Extensions_get(other, t) # Absent
                          THEN Extensions_get(other, t)
                          ELSE @[t]]]
    /\ lastOp' = [op |-> "extend", ctx |-> c, ty |-> "-", ret |-> Absent,
                  prior |-> Absent]
    /\ UNCHANGED ctxs
    /\ UNCHANGED notCtx

\* ctx.get::<t>() by a holder of Context c
CtxGet(c, t) ==
    /\ lastOp' = [op |-> "get", ctx |-> c, ty |-> t,
                  ret |-> Context_get(ctxs, bags, c, t),
                  prior |-> written[c][t]]
    /\ UNCHANGED <<ctxs, bags, written>>
    /\ UNCHANGED notCtx

CtxCloneAny == \E c \in 1..Len(ctxs) : CtxClone(c)
CtxInsertAny ==
    \E c \in 1..Len(ctxs) : \E t \in Types : \E v \in ExtVals : CtxInsert(c, t, v)
CtxExtendAny ==
    \E c \in 1..Len(ctxs) : \E other \in OtherBags : CtxExtend(c, other)
CtxGetAny == \E c \in 1..Len(ctxs) : \E t \in Types : CtxGet(c, t)

CtxNext ==
    \/ CtxCloneAny
    \/ CtxInsertAny
    \/ CtxExtendAny
    \/ CtxGetAny

SpecCtx == CtxInit /\ [][CtxNext]_vars

\* C17: an operation on one Context changes what get returns on no other
\* Context, whichever Context was cloned from which; a clone starts with
\* the facts of its origin; and every Context refers to the state and the
\* Guard of the first.
C17_CloneIsolatesExtensions ==
    /\ [][ /\ \A d \in 1..Len(ctxs) : \A t \in Types :
                d # lastOp'.ctx =>
                    Context_get(ctxs', bags', d, t) = Context_get(ctxs, bags, d, t)
           /\ lastOp'.op = "clone" =>
                \E c \in 1..Len(ctxs) : \A t \in Types :
                    Context_get(ctxs', bags', Len(ctxs'), t)
                        = Context_get(ctxs, bags, c, t)
         ]_vars
    /\ [](\A c \in 1..Len(ctxs) :
              /\ ctxs[c].state = ctxs[1].state
              /\ ctxs[c].guard = ctxs[1].guard)

C17_Witness ==
    /\ Len(ctxs) >= 2
    /\ ctxs[1].guard = "guard0"
    /\ ctxs[2].guard = "guard0"
    /\ Context_get(ctxs, bags, 1, "UserId") = "a"
    /\ Context_get(ctxs, bags, 2, "UserId") = "b"
    /\ Context_get(ctxs, bags, 1, "UsernameLabels") = Absent
    /\ Context_get(ctxs, bags, 2, "UsernameLabels") = "a"
    /\ lastOp.op = "insert"
    /\ lastOp.ctx = 1

\* C18: every bag holds at most one entry per type, get returns the value
\* most recently written for the type (by insert or extend) and nothing if
\* none was, and insert returns the value it replaced, nothing if there was
\* none.
C18_OneValuePerType ==
    /\ \A c \in 1..Len(ctxs) : \A t \in Types :
          /\ Cardinality({p \in ExtOf(ctxs, bags, c) : p[1] = t}) <= 1
          /\ Context_get(ctxs, bags, c, t) = written[c][t]
    /\ lastOp.op \in {"insert", "get"} => lastOp.ret = lastOp.prior

C18_Witness ==
    /\ lastOp.op = "insert"
    /\ lastOp.prior = "a"
    /\ lastOp.ret = "a"
    /\ Context_get(ctxs, bags, lastOp.ctx, lastOp.ty) = "b"
    /\ Cardinality(ExtOf(ctxs, bags, lastOp.ctx)) = 2

-----------------------------------------------------------------------------
(* The Guard shared between the Driver and other waiters.                  *)

NWaiters == 2       \* other holders of a clone of the Driver's Guard

\* the Driver serving with a Guard, the other holders not yet waiting
GuardInit ==
    /\ builder \in Builders
    /\ hasGuard = TRUE
    /\ cancelled = FALSE
    /\ conn = Pending
    /\ shutdownCalls = 0
    /\ pc = "Serving"
    /\ ret = NoRet
    /\ nClassified = 0
    /\ path = "none"
    /\ firedServing = FALSE
    /\ waiters = [i \in 1..NWaiters |-> "idle"]
    /\ RetryIdle
    /\ CtxIdle
    /\ AuthIdle
    /\ TrackerIdle
    /\ ReqIdle
    /\ SharedIdle

\* holder i awaits guard.cancelled(): the first poll is ready iff the
\* signal was sent already
WaiterWait(i) ==
    /\ waiters[i] = "idle"
    /\ waiters' = [waiters EXCEPT ![i] =
                      IF cancelled THEN "released" ELSE "waiting"]
    /\ UNCHANGED driverVars
    /\ UNCHANGED notGuard

\* holder i, suspended on guard.cancelled(), is woken by the signal
WaiterResolve(i) ==
    /\ waiters[i] = "waiting"
    /\ cancelled
    /\ waiters' = [waiters EXCEPT ![i] = "released"]
    /\ UNCHANGED driverVars
    /\ UNCHANGED notGuard

\* holder i drops the resolved future; it may wait again later
WaiterDrop(i) ==
    /\ waiters[i] = "released"
    /\ waiters' = [waiters EXCEPT ![i] = "idle"]
    /\ UNCHANGED driverVars
    /\ UNCHANGED notGuard

WaiterWaitAny == \E i \in 1..NWaiters : WaiterWait(i)
WaiterResolveAny == \E i \in 1..NWaiters : WaiterResolve(i)
WaiterDropAny == \E i \in 1..NWaiters : WaiterDrop(i)

GuardNext ==
    \/ GuardCancel
    \/ ConnTerminate
    \/ SelectCancelled
    \/ SelectConnFinished
    \/ AwaitAfterShutdown
    \/ WaiterWaitAny
    \/ WaiterResolveAny
    \/ WaiterDropAny

SpecGuard == GuardInit /\ [][GuardNext]_vars

\* a suspended waiter whose Guard was signalled is eventually polled again
SpecGuardFair ==
    /\ SpecGuard
    /\ \A i \in 1..NWaiters : WF_vars(WaiterResolve(i))

\* C19: once signalled the Guard stays signalled through every step, the
\* Driver's own wait included; a waiter is released only by the signal;
\* a waiter that starts waiting after the signal is released at once; and
\* every waiter suspended when the signal is sent is eventually released.
C19_GuardMonotonicBroadcast ==
    /\ [][cancelled => cancelled']_vars
    /\ [](\A i \in 1..NWaiters : waiters[i] = "released" => cancelled)
    /\ [][\A i \in 1..NWaiters :
             (cancelled /\ waiters[i] = "idle" /\ waiters'[i] # "idle")
                 => waiters'[i] = "released"]_vars
    /\ \A i \in 1..NWaiters :
          (cancelled /\ waiters[i] = "waiting") ~> (waiters[i] = "released")

\* the Driver has seen the signal and requested the shutdown, one waiter
\* has been released and another, suspended since before the signal, has
\* not been polled yet
C19_Witness ==
    /\ cancelled
    /\ pc = "GracefulShutdownRequested"
    /\ shutdownCalls = 1
    /\ waiters[1] = "released"
    /\ waiters[2] = "waiting"

-----------------------------------------------------------------------------
(* Authority: credential validators and collections of them.               *)

MaxAuths == 3       \* members of a collection of validators

Usernames == {"foo", "john"}
Passwords == {"bar", "secret"}

\* Basic::new(username, password)
Basics == [username : Usernames, password : Passwords]

\* the collections of at most MaxAuths validators
AuthsOfLen(n) == [1..n -> Basics]
Collections == UNION {AuthsOfLen(n) : n \in 0..MaxAuths}

\* AuthoritySync<Basic, ()> for Basic: the outcome and the Extensions left
Basic_authorized(self, ext, credentials) ==
    IF self = credentials
    THEN [ok |-> TRUE, ext |-> Extensions_insert(ext, "UserId", self.username)]
    ELSE [ok |-> FALSE, ext |-> ext]

\* Iterator::all over t.authorized(ext, credentials): stops at the first
\* false; consulted lists the members whose authorized was called
RECURSIVE iter_all(_, _, _, _)
iter_all(self, i, ext, credentials) ==
    IF i > Len(self)
    THEN [ok |-> TRUE, ext |-> ext, consulted |-> <<>>]
    ELSE LET r == Basic_authorized(self[i], ext, credentials)
             rest == iter_all(self, i + 1, r.ext, credentials)
         IN  IF ~r.ok
             THEN [ok |-> FALSE, ext |-> r.ext, consulted |-> <<i>>]
             ELSE [ok |-> rest.ok, ext |-> rest.ext,
                   consulted |-> <<i>> \o rest.consulted]

\* Iterator::any over t.authorized(ext, credentials): stops at the first
\* true; consulted lists the members whose authorized was called
RECURSIVE iter_any(_, _, _, _)
iter_any(self, i, ext, credentials) ==
    IF i > Len(self)
    THEN [ok |-> FALSE, ext |-> ext, consulted |-> <<>>]
    ELSE LET r == Basic_authorized(self[i], ext, credentials)
             rest == iter_any(self, i + 1, r.ext, credentials)
         IN  IF r.ok
             THEN [ok |-> TRUE, ext |-> r.ext, consulted |-> <<i>>]
             ELSE [ok |-> rest.ok, ext |-> rest.ext,
                   consulted |-> <<i>> \o rest.consulted]

\* faulty variant: every member has to authorize
Vec_authorized_All(self, ext, credentials) == iter_all(self, 1, ext, credentials)

\* AuthoritySync for Vec<T>
Vec_authorized(self, ext, credentials) == iter_any(self, 1, ext, credentials)

\* AuthoritySync for [T; N]
Array_authorized(self, ext, credentials) == iter_any(self, 1, ext, credentials)

\* Authority for A: AuthoritySync, on a fresh Extensions; Some(ext) or None
Authority_authorized(kind, self, credentials) ==
    LET r == IF kind = "Vec"
             THEN Vec_authorized(self, Extensions_new, credentials)
             ELSE Array_authorized(self, Extensions_new, credentials)
    IN  [kind |-> kind,
         tag |-> IF r.ok THEN "Some" ELSE "None",
         ext |-> IF r.ok THEN r.ext ELSE Extensions_new,
         consulted |-> r.consulted]

\* a collection of validators and a credential to present to it
AuthInit ==
    /\ auths \in Collections
    /\ cred \in Basics
    /\ apc = "ready"
    /\ authRes = "none"
    /\ DriverIdle
    /\ GuardIdle
    /\ RetryIdle
    /\ CtxIdle
    /\ TrackerIdle
    /\ ReqIdle
    /\ SharedIdle

\* Authority::authorized(&auths, cred) with auths a Vec
AuthorizeVec ==
    /\ apc = "ready"
    /\ authRes' = Authority_authorized("Vec", auths, cred)
    /\ apc' = "done"
    /\ UNCHANGED <<auths, cred>>
    /\ UNCHANGED notAuth

\* Authority::authorized(&auths, cred) with auths an array
AuthorizeArray ==
    /\ apc = "ready"
    /\ authRes' = Authority_authorized("Array", auths, cred)
    /\ apc' = "done"
    /\ UNCHANGED <<auths, cred>>
    /\ UNCHANGED notAuth

AuthNext ==
    \/ AuthorizeVec
    \/ AuthorizeArray

SpecAuth == AuthInit /\ [][AuthNext]_vars

\* the members that authorize the credential on their own
Matching == {i \in 1..Len(auths) :
                Basic_authorized(auths[i], Extensions_new, cred).ok}

\* the members up to and including the first that authorizes, all if none
UpToFirstMatch ==
    IF Matching = {}
    THEN 1..Len(auths)
    ELSE 1..(CHOOSE i \in Matching : \A j \in Matching : i <= j)

\* C20: a Vec or array of validators authorizes a credential iff some
\* member authorizes it; the members consulted are, in index order, those
\* up to and including the first that authorizes (all of them if none
\* does); the empty collection rejects.
C20_CollectionIsOrMatch ==
    apc = "done" =>
        /\ (authRes.tag = "Some") <=> (Matching # {})
        /\ authRes.consulted = [j \in UpToFirstMatch |-> j]
        /\ Len(auths) = 0 => authRes.tag = "None"

\* the second of three members authorizes; the third would too and is
\* not consulted
C20_Witness ==
    /\ apc = "done"
    /\ authRes.kind = "Vec"
    /\ Len(auths) = 3
    /\ Matching = {2, 3}
    /\ authRes.tag = "Some"
    /\ authRes.consulted = <<1, 2>>

-----------------------------------------------------------------------------
(* Authority with username labels (AuthoritySync<Basic, T> for Basic).     *)

\* a username is the sequence of its parts between the label separators:
\* "john-green-red" is <<"john", "green", "red">>, "john-" is <<"john", "">>
StoredUsernames == {<<"foo">>, <<"john">>, <<"john", "green">>, <<"john", "">>}
PresentedUsernames ==
    StoredUsernames \cup {<<"mallory">>, <<"john", "green", "red">>}

\* Basic::new(username, password)
Basic_new(username, password) == [username |-> username, password |-> password]

StoredBasics == [username : StoredUsernames, password : Passwords]
PresentedBasics == [username : PresentedUsernames, password : Passwords]
LabelCollections == UNION {[1..n -> StoredBasics] : n \in 0..MaxAuths}

ParseErr == [tag |-> "Err", username |-> <<>>, ext |-> Extensions_new]

\* parse_username(&mut parser_ext, UsernameOpaqueLabelParser, username):
\* the base name and, if any label follows, the labels in presented order
\* as a UsernameLabels fact; an empty name or an empty label is an error
parse_username(username) ==
    IF username = <<>> \/ \E i \in 1..Len(username) : username[i] = ""
    THEN ParseErr
    ELSE [tag |-> "Ok",
          username |-> <<Head(username)>>,
          ext |-> IF Len(username) = 1
                  THEN Extensions_new
                  ELSE {<<"UsernameLabels", Tail(username)>>}]

\* faulty variant: the parser's facts are merged before the base name is
\* compared
Basic_authorized_labels_MergesEarly(self, ext, credentials) ==
    LET parsed == parse_username(credentials.username)
    IN  IF credentials.password # self.password
        THEN [ok |-> FALSE, ext |-> ext]
        ELSE IF parsed.tag = "Err"
        THEN IF self = credentials
             THEN [ok |-> TRUE,
                   ext |-> Extensions_insert(ext, "UserId", credentials.username)]
             ELSE [ok |-> FALSE, ext |-> ext]
        ELSE IF parsed.username # self.username
        THEN [ok |-> FALSE, ext |-> Extensions_extend(ext, parsed.ext)]
        ELSE [ok |-> TRUE,
              ext |-> Extensions_insert(Extensions_extend(ext, parsed.ext),
                                        "UserId", parsed.username)]

\* faulty variant: the identity recorded is the username as presented
Basic_authorized_labels_WholeName(self, ext, credentials) ==
    LET parsed == parse_username(credentials.username)
    IN  IF credentials.password # self.password
        THEN [ok |-> FALSE, ext |-> ext]
        ELSE IF parsed.tag = "Err"
        THEN IF self = credentials
             THEN [ok |-> TRUE,
                   ext |-> Extensions_insert(ext, "UserId", credentials.username)]
             ELSE [ok |-> FALSE, ext |-> ext]
        ELSE IF parsed.username # self.username
        THEN [ok |-> FALSE, ext |-> ext]
        ELSE [ok |-> TRUE,
              ext |-> Extensions_insert(Extensions_extend(ext, parsed.ext),
                                        "UserId", credentials.username)]

\* AuthoritySync<Basic, T> for Basic: the outcome and the Extensions left
Basic_authorized_labels(self, ext, credentials) ==
    LET parsed == parse_username(credentials.username)
    IN  IF credentials.password # self.password
        THEN [ok |-> FALSE, ext |-> ext]
        ELSE IF parsed.tag = "Err"
        THEN IF self = credentials
             THEN [ok |-> TRUE,
                   ext |-> Extensions_insert(ext, "UserId", credentials.username)]
             ELSE [ok |-> FALSE, ext |-> ext]
        ELSE IF parsed.username # self.username
        THEN [ok |-> FALSE, ext |-> ext]
        ELSE [ok |-> TRUE,
              ext |-> Extensions_insert(Extensions_extend(ext, parsed.ext),
                                        "UserId", parsed.username)]

\* Iterator::any over the label-aware t.authorized(ext, credentials);
\* exts lists the Extensions left by each member consulted
RECURSIVE iter_any_labels(_, _, _, _)
iter_any_labels(self, i, ext, credentials) ==
    IF i > Len(self)
    THEN [ok |-> FALSE, ext |-> ext, consulted |-> <<>>, exts |-> <<>>]
    ELSE LET r == Basic_authorized_labels(self[i], ext, credentials)
             rest == iter_any_labels(self, i + 1, r.ext, credentials)
         IN  IF r.ok
             THEN [ok |-> TRUE, ext |-> r.ext, consulted |-> <<i>>,
                   exts |-> <<r.ext>>]
             ELSE [ok |-> rest.ok, ext |-> rest.ext,
                   consulted |-> <<i>> \o rest.consulted,
                   exts |-> <<r.ext>> \o rest.exts]

\* AuthoritySync<Basic, T> for Vec<Basic>
Vec_authorized_labels(self, ext, credentials) ==
    iter_any_labels(self, 1, ext, credentials)

\* faulty variant: the Extensions are returned whatever the outcome
Authority_authorized_labels_AlwaysSome(self, credentials) ==
    LET r == Vec_authorized_labels(self, Extensions_new, credentials)
    IN  [kind |-> "VecLabels",
         tag |-> "Some",
         ext |-> r.ext,
         consulted |-> r.consulted,
         exts |-> r.exts]

\* Authority for A: AuthoritySync, with a label parser
Authority_authorized_labels(self, credentials) ==
    LET r == Vec_authorized_labels(self, Extensions_new, credentials)
    IN  [kind |-> "VecLabels",
         tag |-> IF r.ok THEN "Some" ELSE "None",
         ext |-> IF r.ok THEN r.ext ELSE Extensions_new,
         consulted |-> r.consulted,
         exts |-> r.exts]

LabelsInit ==
    /\ auths \in LabelCollections
    /\ cred \in PresentedBasics
    /\ apc = "ready"
    /\ authRes = "none"
    /\ DriverIdle
    /\ GuardIdle
    /\ RetryIdle
    /\ CtxIdle
    /\ TrackerIdle
    /\ ReqIdle
    /\ SharedIdle

\* Authority::<_, UsernameOpaqueLabelParser>::authorized(&auths, cred)
AuthorizeVecLabels ==
    /\ apc = "ready"
    /\ authRes' = Authority_authorized_labels(auths, cred)
    /\ apc' = "done"
    /\ UNCHANGED <<auths, cred>>
    /\ UNCHANGED notAuth

SpecAuthLabels == LabelsInit /\ [][AuthorizeVecLabels]_vars

\* the member consulted k-th, and whether it was the one that authorized
ConsultedMember(k) == auths[authRes.consulted[k]]
ConsultedMatched(k) == authRes.tag = "Some" /\ k = Len(authRes.consulted)

\* C21: every member consulted that did not authorize left the shared
\* Extensions as they were (empty), and the Extensions returned on success
\* are those the authorizing member produces on its own.
C21_NoLeakFromPartialAttempts ==
    (apc = "done" /\ authRes.kind = "VecLabels") =>
        /\ \A k \in 1..Len(authRes.consulted) :
              ~ConsultedMatched(k) => authRes.exts[k] = Extensions_new
        /\ authRes.tag = "Some" =>
              authRes.ext =
                  Basic_authorized_labels(
                      ConsultedMember(Len(authRes.consulted)),
                      Extensions_new, cred).ext

\* the first member has the password but another base name, so the labels
\* were parsed for it; the second member authorizes
C21_Witness ==
    /\ apc = "done"
    /\ auths = <<Basic_new(<<"foo">>, "secret"),
                 Basic_new(<<"john">>, "secret")>>
    /\ cred = Basic_new(<<"john", "green", "red">>, "secret")
    /\ authRes.tag = "Some"
    /\ authRes.consulted = <<1, 2>>
    /\ authRes.exts[1] = Extensions_new
    /\ Extensions_get(authRes.ext, "UsernameLabels") = <<"green", "red">>

\* C22: a consulted label-aware member whose password matches and for
\* which parsing fails or the parsed base name differs from its username
\* authorizes iff the whole presented username equals its username.
C22_FallbackToWholeUsername ==
    (apc = "done" /\ authRes.kind = "VecLabels") =>
        \A k \in 1..Len(authRes.consulted) :
            LET t == ConsultedMember(k)
                parsed == parse_username(cred.username)
            IN  (/\ cred.password = t.password
                 /\ \/ parsed.tag = "Err"
                    \/ parsed.username # t.username)
                    => (ConsultedMatched(k) <=> cred.username = t.username)

\* the stored username itself has a label part and is presented as is:
\* the parsed base name differs and the member rejects
C22_Witness ==
    /\ apc = "done"
    /\ auths = <<Basic_new(<<"john", "green">>, "secret")>>
    /\ cred = Basic_new(<<"john", "green">>, "secret")
    /\ authRes.tag = "None"
    /\ authRes.consulted = <<1>>

\* the candidates of the tests
TestCandidates ==
    <<Basic_new(<<"foo">>, "bar"),
      Basic_new(<<"john">>, "secret")>>

\* C23: over the candidates (foo, bar), (john, secret): john-green-red
\* with secret is authorized as john with labels green, red; john with
\* secret is authorized as john with no labels fact; mallory with secret
\* yields no Extensions.
C23_OrMatchWithLabels ==
    (apc = "done" /\ authRes.kind = "VecLabels" /\ auths = TestCandidates
        /\ cred.password = "secret") =>
        /\ cred.username = <<"john", "green", "red">> =>
              /\ authRes.tag = "Some"
              /\ Extensions_get(authRes.ext, "UserId") = <<"john">>
              /\ Extensions_get(authRes.ext, "UsernameLabels")
                    = <<"green", "red">>
        /\ cred.username = <<"john">> =>
              /\ authRes.tag = "Some"
              /\ Extensions_get(authRes.ext, "UserId") = <<"john">>
              /\ Extensions_get(authRes.ext, "UsernameLabels") = Absent
        /\ cred.username = <<"mallory">> =>
              /\ authRes.tag = "None"
              /\ authRes.ext = Extensions_new

C23_Witness ==
    /\ apc = "done"
    /\ auths = TestCandidates
    /\ cred = Basic_new(<<"john", "green", "red">>, "secret")
    /\ authRes.tag = "Some"
    /\ Cardinality(authRes.ext) = 2

-----------------------------------------------------------------------------
(* BytesRWTracker and its handles.                                         *)

MaxBytes == 3       \* bytes transferred in each direction
MaxChunk == 2       \* bytes one poll of the inner stream transfers
MaxFilled == 1      \* bytes already in the ReadBuf when poll_read is called
MaxHandles == 2     \* handles obtained from the tracker

Owners == {"main", "task", "layer"}

\* outcomes of a poll of the inner stream; n is the number of bytes it
\* put into the buffer (read) or took from it (write)
PollPending == [tag |-> "Pending", n |-> 0]
PollErr == [tag |-> "Err", n |-> 0]
PollOk(n) == [tag |-> "Ok", n |-> n]
PollResults == {PollPending, PollErr} \cup {PollOk(n) : n \in 0..MaxChunk}

\* AtomicUsize::fetch_add / load on a counter of the heap
fetch_add(c, n) == [cells EXCEPT ![c] = @ + n]
load(c) == cells[c]

\* BytesRWTracker::read / written
BytesRWTracker_read == load(trk.read)
BytesRWTracker_written == load(trk.written)

\* BytesRWTrackerHandle::read / written
BytesRWTrackerHandle_read(h) == load(handles[h].read)
BytesRWTrackerHandle_written(h) == load(handles[h].written)

\* faulty variant: the handle gets counters of its own, set to the current
\* counts
BytesRWTracker_handle_Snapshot ==
    [h |-> [read |-> Len(cells) + 1, written |-> Len(cells) + 2,
            read0 |-> BytesRWTracker_read],
     cells |-> cells \o <<BytesRWTracker_read, BytesRWTracker_written>>]

\* BytesRWTracker::handle: the Arcs are cloned, the counters are the same
BytesRWTracker_handle ==
    [h |-> [read |-> trk.read, written |-> trk.written,
            read0 |-> BytesRWTracker_read],
     cells |-> cells]

\* faulty variant: the bytes already in the buffer are counted as read
poll_read_CountsFilled(size, res) ==
    IF res.tag = "Ok" THEN fetch_add(trk.read, size + res.n) ELSE cells

\* AsyncRead::poll_read: the counters after the poll, size being
\* buf.filled().len() before the inner poll
poll_read(size, res) ==
    IF res.tag = "Ok"
    THEN fetch_add(trk.read, (size + res.n) - size)
    ELSE cells

\* faulty variant: a failed write clears the count of written bytes
poll_write_ResetsOnErr(res) ==
    IF res.tag = "Ok" THEN fetch_add(trk.written, res.n)
    ELSE IF res.tag = "Err" THEN [cells EXCEPT ![trk.written] = 0]
    ELSE cells

\* AsyncWrite::poll_write
poll_write(res) ==
    IF res.tag = "Ok" THEN fetch_add(trk.written, res.n) ELSE cells

\* AsyncWrite::poll_write_vectored
poll_write_vectored(res) ==
    IF res.tag = "Ok" THEN fetch_add(trk.written, res.n) ELSE cells

\* BytesRWTracker::new(stream)
TrackerInit ==
    /\ cells = <<0, 0>>
    /\ trk = [read |-> 1, written |-> 2, owner |-> "main"]
    /\ handles = <<>>
    /\ delivered = 0
    /\ accepted = 0
    /\ lastIo = [op |-> "new", tag |-> "Ok", n |-> 0]
    /\ DriverIdle
    /\ GuardIdle
    /\ RetryIdle
    /\ CtxIdle
    /\ AuthIdle
    /\ ReqIdle
    /\ SharedIdle

Delivered(res) == IF res.tag = "Ok" THEN res.n ELSE 0

TrkPollRead ==
    /\ trk.owner \in Owners
    /\ \E size \in 0..MaxFilled : \E res \in PollResults :
          /\ delivered + Delivered(res) <= MaxBytes
          /\ cells' = poll_read(size, res)
          /\ delivered' = delivered + Delivered(res)
          /\ lastIo' = [op |-> "read", tag |-> res.tag, n |-> res.n]
    /\ UNCHANGED <<trk, handles, accepted>>
    /\ UNCHANGED notTracker

TrkPollWrite ==
    /\ trk.owner \in Owners
    /\ \E res \in PollResults :
          /\ accepted + Delivered(res) <= MaxBytes
          /\ cells' = poll_write(res)
          /\ accepted' = accepted + Delivered(res)
          /\ lastIo' = [op |-> "write", tag |-> res.tag, n |-> res.n]
    /\ UNCHANGED <<trk, handles, delivered>>
    /\ UNCHANGED notTracker

TrkPollWriteVectored ==
    /\ trk.owner \in Owners
    /\ \E res \in PollResults :
          /\ accepted + Delivered(res) <= MaxBytes
          /\ cells' = poll_write_vectored(res)
          /\ accepted' = accepted + Delivered(res)
          /\ lastIo' = [op |-> "write_vectored", tag |-> res.tag, n |-> res.n]
    /\ UNCHANGED <<trk, handles, delivered>>
    /\ UNCHANGED notTracker

\* poll_flush / poll_shutdown: passed to the inner stream, nothing counted
TrkPollFlush ==
    /\ trk.owner \in Owners
    /\ \E res \in {PollPending, PollErr, PollOk(0)} :
          lastIo' = [op |-> "flush", tag |-> res.tag, n |-> 0]
    /\ UNCHANGED <<cells, trk, handles, delivered, accepted>>
    /\ UNCHANGED notTracker

\* tracker.handle()
TrkHandle ==
    /\ trk.owner \in Owners
    /\ Len(handles) < MaxHandles
    /\ handles' = Append(handles, BytesRWTracker_handle.h)
    /\ cells' = BytesRWTracker_handle.cells
    /\ lastIo' = [op |-> "handle", tag |-> "Ok", n |-> 0]
    /\ UNCHANGED <<trk, delivered, accepted>>
    /\ UNCHANGED notTracker

\* the tracker is moved: into a spawned task, or into a protocol layer
\* that owns it as its stream
TrkMove ==
    /\ trk.owner \in Owners
    /\ \E o \in {"task", "layer"} :
          /\ o # trk.owner
          /\ trk' = [trk EXCEPT !.owner = o]
    /\ lastIo' = [op |-> "move", tag |-> "Ok", n |-> 0]
    /\ UNCHANGED <<cells, handles, delivered, accepted>>
    /\ UNCHANGED notTracker

\* tracker.into_inner(): the tracker is gone, the handles keep the counts
TrkIntoInner ==
    /\ trk.owner \in Owners
    /\ trk' = [trk EXCEPT !.owner = "consumed"]
    /\ lastIo' = [op |-> "into_inner", tag |-> "Ok", n |-> 0]
    /\ UNCHANGED <<cells, handles, delivered, accepted>>
    /\ UNCHANGED notTracker

TrackerNext ==
    \/ TrkPollRead
    \/ TrkPollWrite
    \/ TrkPollWriteVectored
    \/ TrkPollFlush
    \/ TrkHandle
    \/ TrkMove
    \/ TrkIntoInner

SpecTracker == TrackerInit /\ [][TrackerNext]_vars

\* C24: read() is the number of bytes delivered by successful reads and
\* written() the number accepted by successful writes, plain and vectored
\* (both 0 at first); a read leaves written() and a write leaves read()
\* as they were.
C24_CountersMatchTransfers ==
    /\ [](/\ BytesRWTracker_read = delivered
          /\ BytesRWTracker_written = accepted)
    /\ [][/\ lastIo'.op = "read"
                => BytesRWTracker_written' = BytesRWTracker_written
          /\ lastIo'.op \in {"write", "write_vectored"}
                => BytesRWTracker_read' = BytesRWTracker_read]_vars

\* a read into a buffer that already held a byte, after a vectored write
C24_Witness ==
    /\ delivered = 3
    /\ accepted = 2
    /\ BytesRWTracker_read = 3
    /\ BytesRWTracker_written = 2
    /\ lastIo = [op |-> "read", tag |-> "Ok", n |-> 2]

\* C25: every handle reports the tracker's current counts, which are the
\* bytes transferred so far, wherever the tracker has been moved and
\* whenever the handle was obtained.
C25_HandleSharesCounters ==
    \A h \in 1..Len(handles) :
        /\ BytesRWTrackerHandle_read(h) = BytesRWTracker_read
        /\ BytesRWTrackerHandle_written(h) = BytesRWTracker_written
        /\ BytesRWTrackerHandle_read(h) = delivered
        /\ BytesRWTrackerHandle_written(h) = accepted

\* the handle was obtained before any transfer, the tracker then moved
\* into a task that read and wrote
C25_Witness ==
    /\ Len(handles) >= 1
    /\ handles[1].read0 = 0
    /\ trk.owner = "task"
    /\ BytesRWTrackerHandle_read(1) = 3
    /\ BytesRWTrackerHandle_written(1) = 3

-----------------------------------------------------------------------------
(* The Retry engine's order of consultation.                               *)

\* C26: an attempt starts with one clone_input on the Context and request
\* about to be passed and is followed by the inner call; Policy::retry is
\* consulted only after the call, only if clone_input returned a value,
\* and on that value; without a value the attempt's result is returned
\* as it is and retry is not consulted.
C26_CloneBeforeCallRetryIffCloned ==
    /\ [][rpc = "clone" =>
             /\ rpc' = "call"
             /\ cloned' = Policy_clone_input(policy, curCtx, curReq)
             /\ nCalls' = nCalls
             /\ nRetry' = nRetry]_vars
    /\ [][rpc = "call" =>
             /\ rpc' \in {"decide", "panicked"}
             /\ nCalls' = nCalls + 1
             /\ reqSeen' = Append(reqSeen, curReq)
             /\ cloned' = cloned
             /\ nRetry' = nRetry]_vars
    /\ [][rpc = "decide" =>
             IF cloned.some
             THEN /\ nRetry' = nRetry + 1
                  /\ attempts' = Policy_retry(policy, attempts, cloned.ctx,
                                              cloned.req, resp).att
                  /\ nCalls' = nCalls
             ELSE /\ nRetry' = nRetry
                  /\ rpc' = "done"
                  /\ final' = resp
                  /\ nCalls' = nCalls]_vars
    /\ [](/\ rpc \in {"call", "decide"} /\ cloned.some
                => (cloned.ctx = curCtx /\ cloned.req = curReq)
          /\ nRetry <= nCalls
          /\ policy = "CannotClone" => (nRetry = 0 /\ nCalls <= 1))

\* the second attempt of the mutating policy has been made on the
\* request of the first decision, and its clone awaits the second decision
C26_Witness ==
    /\ policy = "MutatingPolicy"
    /\ svc.kind = "retry_mutating_policy"
    /\ rpc = "decide"
    /\ nCalls = 2
    /\ nRetry = 1
    /\ cloned.some
    /\ cloned.req = "retrying"
    /\ reqSeen = <<"hello", "retrying">>

-----------------------------------------------------------------------------
(* The Retry engine with its Contexts on the heap: the inner Service       *)
(* writes a fact into the Context it is given.                             *)

notRetryCtx == <<driverVars, guardVars, authVars, trackerVars, reqVars,
                 sharedVars>>

\* svc.serve(Context::default(), "hello") on RetryLayer::new(policy);
\* curCtx and the clones are handles into ctxs
RetryCtxInit ==
    /\ policy \in Policies
    /\ svc \in Svcs
    /\ attempts \in (IF policy \in {"Limit", "MutatingPolicy"}
                     THEN 0..MaxRetries ELSE {0})
    /\ attempts0 = attempts
    /\ origReq = "hello"
    /\ rpc = "clone"
    /\ curCtx = 1
    /\ curReq = origReq
    /\ cloned = None
    /\ resp = NoRes
    /\ final = NoRes
    /\ nCalls = 0
    /\ reqSeen = <<>>
    /\ nRetry = 0
    /\ retryReqs = <<>>
    /\ abortVal = NoRes
    /\ panicked = FALSE
    /\ \E g \in {"none", "guard0"} :
          ctxs = <<[ext |-> 1, state |-> "state0", guard |-> g]>>
    /\ bags = <<Extensions_new>>
    /\ written = <<NoWrites>>
    /\ lastOp = [op |-> "new", ctx |-> 1, ty |-> "-", ret |-> Absent,
                 prior |-> Absent]
    /\ DriverIdle
    /\ GuardIdle
    /\ AuthIdle
    /\ TrackerIdle
    /\ ReqIdle
    /\ SharedIdle

\* clone_input of the coming attempt: a cloning Policy clones the Context
RetryCtxCloneInput ==
    /\ rpc = "clone"
    /\ IF Policy_clone_input(policy, curCtx, curReq).some
       THEN /\ cloned' = Some(Len(ctxs) + 1,
                              Policy_clone_input(policy, curCtx, curReq).req)
            /\ ctxs' = Append(ctxs, Context_clone(curCtx))
            /\ bags' = Append(bags, ExtOf(ctxs, bags, curCtx))
            /\ written' = Append(written, written[curCtx])
            /\ lastOp' = [op |-> "clone", ctx |-> Len(ctxs) + 1, ty |-> "-",
                          ret |-> Absent, prior |-> Absent]
       ELSE /\ cloned' = None
            /\ UNCHANGED ctxVars
    /\ rpc' = "call"
    /\ UNCHANGED <<policy, svc, attempts, attempts0, origReq, curCtx, curReq, resp, final,
                   nCalls, reqSeen, nRetry, retryReqs, abortVal, panicked>>
    /\ UNCHANGED notRetryCtx

\* the inner call: the Service inserts a fact into the Context it got
RetryCtxCallInner ==
    /\ rpc = "call"
    /\ nCalls < MaxCalls
    /\ nCalls' = nCalls + 1
    /\ reqSeen' = Append(reqSeen, curReq)
    /\ \E v \in ExtVals :
          /\ bags' = [bags EXCEPT ![ctxs[curCtx].ext] =
                         Extensions_insert(@, "UserId", v)]
          /\ written' = [written EXCEPT ![curCtx]["UserId"] = v]
          /\ lastOp' = [op |-> "insert", ctx |-> curCtx, ty |-> "UserId",
                        ret |-> Context_get(ctxs, bags, curCtx, "UserId"),
                        prior |-> written[curCtx]["UserId"]]
    /\ IF Svc_asserts(svc, nCalls + 1, curReq)
       THEN /\ resp' = Svc_serve(svc, nCalls + 1)
            /\ rpc' = "decide"
            /\ UNCHANGED panicked
       ELSE /\ panicked' = TRUE
            /\ rpc' = "panicked"
            /\ UNCHANGED resp
    /\ UNCHANGED <<policy, svc, attempts, attempts0, origReq, curCtx, curReq, cloned,
                   final, nRetry, retryReqs, abortVal, ctxs>>
    /\ UNCHANGED notRetryCtx

RetryCtxNoClone ==
    /\ rpc = "decide"
    /\ ~cloned.some
    /\ final' = resp
    /\ rpc' = "done"
    /\ UNCHANGED <<policy, svc, attempts, attempts0, origReq, curCtx, curReq, cloned,
                   resp, nCalls, reqSeen, nRetry, retryReqs, abortVal,
                   panicked>>
    /\ UNCHANGED ctxVars
    /\ UNCHANGED notRetryCtx

\* the Policy decides, given the clone; a Retry decision hands the clone
\* to the next attempt
RetryCtxConsultPolicy ==
    /\ rpc = "decide"
    /\ cloned.some
    /\ LET d == Policy_retry(policy, attempts, cloned.ctx, cloned.req, resp)
       IN  /\ nRetry' = nRetry + 1
           /\ attempts' = d.att
           /\ CASE d.kind = "Abort" ->
                      /\ final' = d.result
                      /\ abortVal' = d.result
                      /\ rpc' = "done"
                      /\ UNCHANGED <<curCtx, curReq, retryReqs, panicked>>
                [] d.kind = "Retry" ->
                      /\ curCtx' = d.ctx
                      /\ curReq' = d.req
                      /\ retryReqs' = Append(retryReqs, d.req)
                      /\ rpc' = "clone"
                      /\ UNCHANGED <<final, abortVal, panicked>>
                [] d.kind = "Panic" ->
                      /\ panicked' = TRUE
                      /\ rpc' = "panicked"
                      /\ UNCHANGED <<final, abortVal, curCtx, curReq, retryReqs>>
    /\ UNCHANGED <<policy, svc, attempts0, origReq, cloned, resp, nCalls,
                   reqSeen>>
    /\ UNCHANGED ctxVars
    /\ UNCHANGED notRetryCtx

RetryCtxNext ==
    \/ RetryCtxCloneInput
    \/ RetryCtxCallInner
    \/ RetryCtxNoClone
    \/ RetryCtxConsultPolicy

SpecRetryCtx == RetryCtxInit /\ [][RetryCtxNext]_vars

\* C27: the fact the inner Service writes during an attempt does not
\* change what the clone taken before the call holds, so neither the
\* Context given to Policy::retry nor the Context of the next attempt
\* (no Policy here merges anything) holds a fact written by the Service;
\* every Context has the state and the Guard of the first.
C27_AttemptsSeeIsolatedContexts ==
    /\ [][(nCalls' # nCalls /\ cloned.some) =>
             \A t \in Types :
                 Context_get(ctxs', bags', cloned.ctx, t)
                     = Context_get(ctxs, bags, cloned.ctx, t)]_vars
    /\ [](/\ (rpc = "decide" /\ cloned.some) =>
                \A t \in Types :
                    Context_get(ctxs, bags, cloned.ctx, t) = Absent
          /\ rpc \in {"clone", "call"} =>
                \A t \in Types : Context_get(ctxs, bags, curCtx, t) = Absent
          /\ \A c \in 1..Len(ctxs) :
                /\ ctxs[c].state = ctxs[1].state
                /\ ctxs[c].guard = ctxs[1].guard)

\* two attempts were made, each Service call wrote its own fact, and the
\* clone awaiting the Policy's decision holds none
C27_Witness ==
    /\ rpc = "decide"
    /\ nCalls = 2
    /\ cloned.some
    /\ Context_get(ctxs, bags, 1, "UserId") = "a"
    /\ Context_get(ctxs, bags, curCtx, "UserId") = "b"
    /\ Context_get(ctxs, bags, cloned.ctx, "UserId") = Absent
    /\ ctxs[cloned.ctx].guard = "guard0"

-----------------------------------------------------------------------------
(* Classification of the connection's terminal error, by class.            *)

\* C28: a run whose connection ended with a hyper error that reports
\* itself canceled or closed returns Ok(()), whatever the error's source.
C28_CanceledOrClosedIsBenign ==
    (/\ pc = "Done"
     /\ conn.result.tag = "Err"
     /\ conn.result.err.ty = "hyper"
     /\ conn.result.err.kind \in {"Canceled", "ChannelClosed"}) => ret = Ok

C28_Witness ==
    /\ pc = "Done"
    /\ conn.result = Err(HyperErr("ChannelClosed", IoSrc("InvalidData")))
    /\ ret = Ok

\* C29: a run whose connection ended with a hyper error, neither canceled
\* nor closed, with an h2 source returns Ok(()) if the h2 error is a
\* go-away or an I/O error the transport classification recognises, and
\* a failure carrying the error otherwise.
C29_H2SourceClassification ==
    (/\ pc = "Done"
     /\ conn.result.tag = "Err"
     /\ conn.result.err.ty = "hyper"
     /\ conn.result.err.kind = "Other"
     /\ conn.result.err.source.ty = "h2") =>
        ret = (IF \/ conn.result.err.source.h2 = "GoAway"
                  \/ /\ conn.result.err.source.h2 = "Io"
                     /\ is_connection_error(conn.result.err.source.io)
               THEN Ok
               ELSE conn.result)

C29_Witness ==
    /\ pc = "Done"
    /\ builder = "http2"
    /\ conn.result = Err(HyperErr("Other", H2Src("Io", "InvalidData")))
    /\ ret = Ok

\* C30: a run of the auto-detect variant classifies a boxed hyper error as
\* the plain hyper path does, a boxed I/O error as Ok(()) iff the
\* transport classification recognises it and as itself otherwise, and
\* returns an error of any other type unchanged.
C30_BoxedProbesInOrder ==
    (pc = "Done" /\ builder = "auto") =>
        ret = (CASE conn.result.tag = "Ok" -> Ok
                 [] conn.result.tag = "Err" /\ conn.result.err.ty = "hyper" ->
                        map_hyper_result(conn.result)
                 [] conn.result.tag = "Err" /\ conn.result.err.ty = "io" ->
                        IF conn.result.err.kind \in {"ConnectionReset", "BrokenPipe"}
                        THEN Ok
                        ELSE conn.result
                 [] conn.result.tag = "Err" /\ conn.result.err.ty = "other" ->
                        conn.result)

C30_Witness ==
    /\ pc = "Done"
    /\ builder = "auto"
    /\ conn.result = Err(IoErr("BrokenPipe"))
    /\ ret = Ok

-----------------------------------------------------------------------------
(* Every way of asking a Basic validator: plain or label-aware, alone or   *)
(* in a collection.                                                        *)

\* Authority for A: AuthoritySync with A a single Basic
Authority_authorized_alone(labels, self, credentials) ==
    LET r == IF labels
             THEN Basic_authorized_labels(self, Extensions_new, credentials)
             ELSE Basic_authorized(self, Extensions_new, credentials)
    IN  [kind |-> IF labels THEN "BasicLabels" ELSE "Basic",
         tag |-> IF r.ok THEN "Some" ELSE "None",
         ext |-> IF r.ok THEN r.ext ELSE Extensions_new,
         consulted |-> <<1>>]

\* Authority::<_, ()>::authorized(&auths[1], cred)
AuthorizeAlone ==
    /\ apc = "ready"
    /\ Len(auths) = 1
    /\ authRes' = Authority_authorized_alone(FALSE, auths[1], cred)
    /\ apc' = "done"
    /\ UNCHANGED <<auths, cred>>
    /\ UNCHANGED notAuth

\* Authority::<_, UsernameOpaqueLabelParser>::authorized(&auths[1], cred)
AuthorizeAloneLabels ==
    /\ apc = "ready"
    /\ Len(auths) = 1
    /\ authRes' = Authority_authorized_alone(TRUE, auths[1], cred)
    /\ apc' = "done"
    /\ UNCHANGED <<auths, cred>>
    /\ UNCHANGED notAuth

AuthAllNext ==
    \/ AuthorizeVec
    \/ AuthorizeArray
    \/ AuthorizeVecLabels
    \/ AuthorizeAlone
    \/ AuthorizeAloneLabels

SpecAuthAll == LabelsInit /\ [][AuthAllNext]_vars

\* C31: an authorization that succeeds returns Extensions whose UserId is
\* the stored username of the member that matched, which for a label-aware
\* validator is not the presented username when that carries labels; one
\* that fails returns none.
C31_UserIdIsStoredUsername ==
    apc = "done" =>
        /\ authRes.tag \in {"Some", "None"}
        /\ authRes.tag = "Some" =>
              /\ authRes.consulted # <<>>
              /\ Extensions_get(authRes.ext, "UserId")
                    = auths[authRes.consulted[Len(authRes.consulted)]].username
              /\ (/\ authRes.kind \in {"VecLabels", "BasicLabels"}
                  /\ Len(cred.username) > 1
                  /\ \A i \in 1..Len(cred.username) : cred.username[i] # "")
                    => Extensions_get(authRes.ext, "UserId") # cred.username
        /\ authRes.tag = "None" => authRes.ext = Extensions_new

\* a label-aware validator on its own, asked with a labelled username
C31_Witness ==
    /\ apc = "done"
    /\ authRes.kind = "BasicLabels"
    /\ auths = <<Basic_new(<<"john">>, "secret")>>
    /\ cred = Basic_new(<<"john", "green">>, "secret")
    /\ authRes.tag = "Some"
    /\ Extensions_get(authRes.ext, "UserId") = <<"john">>

-----------------------------------------------------------------------------
(* RequestContext and get_request_context.                                 *)

MaxGets == 3        \* calls of get_request_context on one Context

\* host:port with either part possibly missing
NoAuthority == [host |-> "none", port |-> "none"]
HostPort(h, p) == [host |-> h, port |-> p]

\* the parts of a request the derivation reads: uri scheme, uri host and
\* port, Host header, version
Requests ==
    [scheme : {"none", "https"},
     uri : {NoAuthority, HostPort("example.com", "none"),
            HostPort("example.com", "8080")},
     hostHeader : {NoAuthority, HostPort("h.com", "none"),
                   HostPort("h.com", "8080")},
     version : {"HTTP_11"}]

\* the Forwarded fact a forwarded-headers layer may have put in the Context
NoForwarded ==
    [some |-> FALSE, proto |-> "none", port |-> "none",
     host |-> NoAuthority, version |-> "none"]
Forwardeds ==
    {[some |-> TRUE, proto |-> "none", port |-> "none",
      host |-> HostPort("192.0.2.60", "none"), version |-> "none"],
     [some |-> TRUE, proto |-> "https", port |-> "4711",
      host |-> NoAuthority, version |-> "HTTP_2"]}

HasFact(bag, t) == \E p \in bag : p[1] = t
Fact(bag, t) == (CHOOSE p \in bag : p[1] = t)[2]

\* Protocol from the uri scheme, and Protocol::default_port
Protocol_from(scheme) == IF scheme = "https" THEN "https" ELSE "http"
Protocol_default_port(protocol) == IF protocol = "https" THEN "443" ELSE "80"

\* From<(&Context<State>, &Request<Body>)> for RequestContext
RequestContext_from(bag, req) ==
    LET forwarded == IF HasFact(bag, "Forwarded")
                     THEN Fact(bag, "Forwarded") ELSE NoForwarded
        protocol == IF forwarded.some /\ forwarded.proto # "none"
                    THEN forwarded.proto
                    ELSE Protocol_from(req.scheme)
        default_port ==
            IF forwarded.some /\ forwarded.port # "none"
            THEN forwarded.port
            ELSE IF req.uri.port # "none"
                 THEN req.uri.port
                 ELSE Protocol_default_port(protocol)
        authority ==
            IF forwarded.some /\ forwarded.host.host # "none"
            THEN HostPort(forwarded.host.host,
                          IF forwarded.host.port # "none"
                          THEN forwarded.host.port ELSE default_port)
            ELSE IF req.hostHeader.host # "none"
                 THEN IF req.hostHeader.port # "none"
                      THEN req.hostHeader
                      ELSE HostPort(req.hostHeader.host, default_port)
                 ELSE IF req.uri.host # "none"
                      THEN HostPort(req.uri.host, default_port)
                      ELSE NoAuthority
        http_version == IF forwarded.some /\ forwarded.version # "none"
                        THEN forwarded.version
                        ELSE req.version
    IN  [http_version |-> http_version, protocol |-> protocol,
         authority |-> authority]

\* faulty variant: the RequestContext is derived and stored at every call
get_request_context_Recomputes(bag, req) ==
    [bag |-> Extensions_insert(bag, "RequestContext",
                               RequestContext_from(bag, req)),
     ret |-> RequestContext_from(bag, req),
     derived |-> 1]

\* __get_request_context!(ctx, req): the Extensions afterwards, the value
\* returned, and whether a RequestContext was derived
get_request_context(bag, req) ==
    IF HasFact(bag, "RequestContext")
    THEN [bag |-> bag, ret |-> Fact(bag, "RequestContext"), derived |-> 0]
    ELSE [bag |-> Extensions_insert(bag, "RequestContext",
                                    RequestContext_from(bag, req)),
          ret |-> Fact(Extensions_insert(bag, "RequestContext",
                                         RequestContext_from(bag, req)),
                       "RequestContext"),
          derived |-> 1]

\* a RequestContext some earlier layer stored by hand
PresetRequestContext ==
    [http_version |-> "HTTP_3", protocol |-> "https",
     authority |-> HostPort("preset.example", "8443")]

NoRequestContext ==
    [http_version |-> "none", protocol |-> "none", authority |-> NoAuthority]

\* svc.serve(Context::default(), req), possibly behind layers that stored
\* a Forwarded fact or a RequestContext
ReqInit ==
    /\ \E fs \in {{}} \cup {{<<"Forwarded", f>>} : f \in Forwardeds} :
       \E rs \in {{}, {<<"RequestContext", PresetRequestContext>>}} :
          rcBag = fs \cup rs
    /\ rcReq \in Requests
    /\ rcRet = [n |-> 0, rc |-> NoRequestContext]
    /\ rcDerived = 0
    /\ DriverIdle
    /\ GuardIdle
    /\ RetryIdle
    /\ CtxIdle
    /\ AuthIdle
    /\ TrackerIdle
    /\ SharedIdle

\* get_request_context!(ctx, req)
ReqGet ==
    /\ rcRet.n < MaxGets
    /\ rcBag' = get_request_context(rcBag, rcReq).bag
    /\ rcRet' = [n |-> rcRet.n + 1, rc |-> get_request_context(rcBag, rcReq).ret]
    /\ rcDerived' = rcDerived + get_request_context(rcBag, rcReq).derived
    /\ UNCHANGED rcReq
    /\ UNCHANGED notReq

\* a layer stores another Forwarded fact in the Context
ReqInsertForwarded ==
    /\ \E f \in Forwardeds : rcBag' = Extensions_insert(rcBag, "Forwarded", f)
    /\ UNCHANGED <<rcReq, rcRet, rcDerived>>
    /\ UNCHANGED notReq

\* a layer rewrites the request
ReqRewrite ==
    /\ rcReq' \in Requests
    /\ UNCHANGED <<rcBag, rcRet, rcDerived>>
    /\ UNCHANGED notReq

ReqNext ==
    \/ ReqGet
    \/ ReqInsertForwarded
    \/ ReqRewrite

SpecReq == ReqInit /\ [][ReqNext]_vars

\* C32: a call on a Context holding a RequestContext returns it and
\* changes nothing; a call on a Context without one derives it from the
\* Context and request, stores it and returns it; after any call the
\* Context holds what was returned, and a further call returns the same
\* and leaves the Context as it is.
C32_GetRequestContextMemoizes ==
    /\ [][rcRet'.n # rcRet.n =>
             IF HasFact(rcBag, "RequestContext")
             THEN /\ rcRet'.rc = Fact(rcBag, "RequestContext")
                  /\ rcBag' = rcBag
                  /\ rcDerived' = rcDerived
             ELSE /\ rcRet'.rc = RequestContext_from(rcBag, rcReq)
                  /\ rcBag' = rcBag \cup {<<"RequestContext", rcRet'.rc>>}
                  /\ rcDerived' = rcDerived + 1]_vars
    /\ [][(rcRet.n >= 1 /\ rcRet'.n # rcRet.n) =>
             (rcRet'.rc = rcRet.rc /\ rcBag' = rcBag)]_vars
    /\ [](rcRet.n >= 1 =>
             /\ HasFact(rcBag, "RequestContext")
             /\ Fact(rcBag, "RequestContext") = rcRet.rc
             /\ rcDerived <= 1)

\* the second call returned the value derived at the first although the
\* request and the Forwarded fact have changed since
C32_Witness ==
    /\ rcRet.n = 2
    /\ rcDerived = 1
    /\ rcRet.rc.authority = HostPort("example.com", "8080")
    /\ RequestContext_from(rcBag, rcReq).authority = HostPort("192.0.2.60", "443")

-----------------------------------------------------------------------------
(* One Limit policy shared by concurrent retry loops.                      *)

NLoops == 2         \* top-level calls running at once on the same Retry layer
MaxBudget == 2      \* the value the shared Limit is created with

\* Limit(Arc::new(Mutex::new(k))) behind one RetryLayer, NLoops calls of
\* svc.serve started
SharedInit ==
    /\ budget \in 0..MaxBudget
    /\ budget0 = budget
    /\ loops = [i \in 1..NLoops |->
                   [pc |-> "call", calls |-> 0, res |-> "none", seen |-> 0]]
    /\ granted = 0
    /\ DriverIdle
    /\ GuardIdle
    /\ RetryIdle
    /\ CtxIdle
    /\ AuthIdle
    /\ TrackerIdle
    /\ ReqIdle

\* the Mutex is held from lock() until retry returns
HoldsLock(i) == loops[i].pc \in {"check", "decrement"}

\* loop i: clone_input (always Some) and the inner call, which fails or not
SharedCall(i) ==
    /\ loops[i].pc = "call"
    /\ \E r \in {"Ok", "Err"} :
          loops' = [loops EXCEPT ![i] =
                       [@ EXCEPT !.pc = "lock", !.calls = @ + 1, !.res = r]]
    /\ UNCHANGED <<budget, budget0, granted>>
    /\ UNCHANGED notShared

\* faulty variant: the counter is entered without waiting for the Mutex
SharedLock_NoMutex(i) ==
    /\ loops[i].pc = "lock"
    /\ loops' = [loops EXCEPT ![i] = [@ EXCEPT !.pc = "check"]]
    /\ UNCHANGED <<budget, budget0, granted>>
    /\ UNCHANGED notShared

\* loop i in Limit::retry: self.0.lock().unwrap()
SharedLock(i) ==
    /\ loops[i].pc = "lock"
    /\ \A j \in 1..NLoops : ~HoldsLock(j)
    /\ loops' = [loops EXCEPT ![i] = [@ EXCEPT !.pc = "check"]]
    /\ UNCHANGED <<budget, budget0, granted>>
    /\ UNCHANGED notShared

\* loop i: result.is_err() && *attempts > 0, else Abort(result)
SharedCheck(i) ==
    /\ loops[i].pc = "check"
    /\ loops' = [loops EXCEPT ![i] =
                    IF loops[i].res = "Err" /\ budget > 0
                    THEN [@ EXCEPT !.pc = "decrement", !.seen = budget]
                    ELSE [@ EXCEPT !.pc = "done"]]
    /\ UNCHANGED <<budget, budget0, granted>>
    /\ UNCHANGED notShared

\* loop i: *attempts -= 1; PolicyResult::Retry; the engine loops
SharedDecrement(i) ==
    /\ loops[i].pc = "decrement"
    /\ budget' = loops[i].seen - 1
    /\ granted' = granted + 1
    /\ loops' = [loops EXCEPT ![i] = [@ EXCEPT !.pc = "call"]]
    /\ UNCHANGED budget0
    /\ UNCHANGED notShared

SharedNext ==
    \/ \E i \in 1..NLoops : SharedCall(i)
    \/ \E i \in 1..NLoops : SharedLock(i)
    \/ \E i \in 1..NLoops : SharedCheck(i)
    \/ \E i \in 1..NLoops : SharedDecrement(i)

SpecShared == SharedInit /\ [][SharedNext]_vars

RECURSIVE TotalCalls(_)
TotalCalls(n) == IF n = 0 THEN 0 ELSE loops[n].calls + TotalCalls(n - 1)

\* C33: however the loops interleave, the shared Limit grants at most as
\* many retries as its budget, its counter stays between 0 and the budget
\* (what was granted plus what is left is the budget), and the inner
\* Service is called at most once per top-level call plus the budget.
C33_SharedLimitBudget ==
    /\ granted <= budget0
    /\ budget >= 0
    /\ budget + granted = budget0
    /\ TotalCalls(NLoops) <= NLoops + budget0

\* both loops have retried once and ended, the budget is used up
C33_Witness ==
    /\ \A i \in 1..NLoops : loops[i].pc = "done"
    /\ loops[1].calls = 2
    /\ loops[2].calls = 2
    /\ budget0 = 2
    /\ budget = 0
    /\ granted = 2

-----------------------------------------------------------------------------
(* Termination of a top-level call of the Retry engine.                    *)

\* C34: the engine has no attempt bound of its own: a call returns only
\* from an attempt for which clone_input gave nothing (with that attempt's
\* result) or on which the Policy said Abort, and a Retry decision always
\* starts another attempt.  With Limit(K), whatever the inner Service
\* answers, there are never more than K+1 inner calls and the call
\* returns.  With RetryErrors over a Service that fails forever the call
\* never returns: it is always about to make a further attempt.
C34_EndsOnlyByPolicy ==
    /\ [][LET Decision == Policy_retry(policy, attempts, cloned.ctx,
                                       cloned.req, resp)
          IN  /\ (rpc # "done" /\ rpc' = "done") =>
                    /\ rpc = "decide"
                    /\ \/ ~cloned.some /\ final' = resp
                       \/ cloned.some /\ Decision.kind = "Abort"
              /\ (rpc = "decide" /\ cloned.some /\ Decision.kind = "Retry")
                    => rpc' = "clone"]_vars
    /\ [](policy = "Limit" => nCalls <= attempts0 + 1)
    /\ (policy = "Limit" => <>(rpc = "done"))
    /\ [](policy = "RetryErrors" /\ svc.kind = "retry_limit"
            => /\ rpc \in {"clone", "call", "decide"}
               /\ nCalls < MaxCalls => ENABLED RetryNext)

\* Limit(2) over a Service that failed three times: returned after call 3
C34_Witness ==
    /\ policy = "Limit"
    /\ svc = [kind |-> "retry_error_inspection", n |-> 3]
    /\ attempts0 = 2
    /\ attempts = 0
    /\ rpc = "done"
    /\ nCalls = 3
    /\ final = RErr("retry me", 3)

-----------------------------------------------------------------------------
(* Liveness of the Driver.                                                 *)

\* the steps the Driver's own future takes when it is polled
DriverStep ==
    \/ SelectCancelled
    \/ SelectConnFinished
    \/ AwaitAfterShutdown
    \/ AwaitNoGuard

\* the task running hyper_serve_connection is polled whenever one of the
\* futures it waits on is ready; the Guard and the peer owe nothing
SpecFair == Spec /\ WF_vars(DriverStep)

\* C35: once the connection future has completed the Driver returns its
\* classification, with or without a Guard and whenever the Guard fires
\* (never, before the completion, or together with it); as long as it has
\* not returned, a completed connection always leaves it a step to take,
\* so it never sits waiting on the Guard.
C35_DriverReturns ==
    /\ (conn.state = "ready") ~> (pc = "Done" /\ ret # NoRet)
    /\ [](conn.state = "ready" /\ pc # "Done" => ENABLED DriverStep)

\* the Guard fired during service, the shutdown was requested, and the
\* Driver returned the classification of the completion that followed
C35_Witness ==
    /\ hasGuard
    /\ cancelled
    /\ firedServing
    /\ pc = "Done"
    /\ path = "cancel_first"
    /\ nClassified = 1
    /\ conn.state = "completed"
    /\ ret = Classify(builder, conn.result)

-----------------------------------------------------------------------------
(* What the operations of the tracker leave alone.                         *)

\* C36: a read or write (plain or vectored) that returns Pending or an
\* error changes neither counter, flush and shutdown change neither
\* counter whatever they return, and no operation ever lowers a counter.
C36_CountersFrame ==
    [][/\ (/\ lastIo'.op \in {"read", "write", "write_vectored"}
           /\ lastIo'.tag \in {"Pending", "Err"})
            => /\ BytesRWTracker_read' = BytesRWTracker_read
               /\ BytesRWTracker_written' = BytesRWTracker_written
               /\ cells' = cells
       /\ lastIo'.op = "flush"
            => /\ BytesRWTracker_read' = BytesRWTracker_read
               /\ BytesRWTracker_written' = BytesRWTracker_written
               /\ cells' = cells
       /\ BytesRWTracker_read' >= BytesRWTracker_read
       /\ BytesRWTracker_written' >= BytesRWTracker_written
       /\ \A h \in 1..Len(handles) :
             /\ BytesRWTrackerHandle_read(h)' >= BytesRWTrackerHandle_read(h)
             /\ BytesRWTrackerHandle_written(h)' >=
                   BytesRWTrackerHandle_written(h)
      ]_vars

\* a write has just failed on a tracker that had counted bytes both ways
C36_Witness ==
    /\ lastIo = [op |-> "write", tag |-> "Err", n |-> 0]
    /\ BytesRWTracker_read = 1
    /\ BytesRWTracker_written = 2
    /\ Len(handles) = 1
    /\ BytesRWTrackerHandle_written(1) = 2

====
